----------------------- MODULE ContainerHelperProofs -----------------------
(***************************************************************************)
(* Proofs about the container helper and the bridge, for any routes, signals, *)
(* orphans, exit codes and amounts of data: a connection through the bridge   *)
(* is a duplex pipe, the application starts behind an open gate, and the      *)
(* helper exits with the status of the application.                          *)
(***************************************************************************)
EXTENDS ContainerHelper, TLAPS

Copiers == {"none", "read", "write", "half", "done"}

PipeType ==
    /\ conn \in {"none", "dial", "open", "closed"} /\ copier \in [Dirs -> Copiers]
    /\ inq \in [Dirs -> Nat] /\ outq \in [Dirs -> Nat]
    /\ sent \in [Dirs -> Nat] /\ got \in [Dirs -> Nat]
    /\ fin \in [Dirs -> BOOLEAN] /\ eof \in [Dirs -> BOOLEAN]
    /\ broken \in BOOLEAN

\* The piece that the copier of d holds between its read and its write.
Carried(d) == IF copier[d] = "write" THEN 1 ELSE 0
OnTheWay(d) == got[d] + outq[d] + inq[d] + Carried(d)

(***************************************************************************)
(* The inductive invariant of a connection: nothing is made up, nothing is    *)
(* lost unless an end or the helper broke off, and the end of a direction is  *)
(* passed on only behind all of its data.                                   *)
(***************************************************************************)
Flow(d) ==
    /\ copier[d] \in {"read", "write", "half"} => conn = "open"
    /\ OnTheWay(d) <= sent[d]
    /\ ~broken => OnTheWay(d) = sent[d]
    /\ ~broken /\ copier[d] \in {"half", "done"} => fin[d] /\ inq[d] = 0
    /\ ~broken /\ d \in ended => fin[d] /\ inq[d] = 0 /\ copier[d] \in {"none", "done"}

PipeInv ==
    /\ PipeType
    /\ dead # {} => broken
    /\ conn \in {"none", "dial"} => ended = {}
    /\ \A d \in Dirs : Flow(d)

LEMMA PipeStart == BridgeInit => PipeInv /\ Pipe!Init
<1> SUFFICES ASSUME BridgeInit PROVE PipeInv /\ Pipe!Init
  OBVIOUS
<1>1. Pipe!Init
  BY DEF BridgeInit, Pipe!Init
<1>2. PipeType
  BY Zenon DEF BridgeInit, PipeType, Copiers
<1>3. \A d \in Dirs : Flow(d)
  BY DEF BridgeInit, Flow, OnTheWay, Carried
<1> QED
  BY <1>1, <1>2, <1>3 DEF BridgeInit, PipeInv

\* The numbers of a direction, for arithmetic.
LEMMA Counts ==
    ASSUME PipeType, NEW d \in Dirs
    PROVE  /\ got[d] \in Nat /\ outq[d] \in Nat /\ inq[d] \in Nat /\ sent[d] \in Nat
           /\ Carried(d) \in {0, 1} /\ OnTheWay(d) \in Nat
           /\ copier[d] \in Copiers /\ fin[d] \in BOOLEAN /\ eof[d] \in BOOLEAN
BY DEF PipeType, OnTheWay, Carried

\* A direction that a step does not touch.
LEMMA Untouched ==
    ASSUME PipeInv, NEW d \in Dirs,
           copier'[d] = copier[d], inq'[d] = inq[d], outq'[d] = outq[d],
           sent'[d] = sent[d], got'[d] = got[d], fin'[d] = fin[d],
           d \in ended' => d \in ended, conn = "open" => conn' = "open",
           broken => broken', broken' \in BOOLEAN
    PROVE  Flow(d)'
BY DEF PipeInv, PipeType, Flow, OnTheWay, Carried

LEMMA ArriveStep == ASSUME PipeInv, Arrive PROVE PipeInv' /\ UNCHANGED Pipe!vars
<1>1. UNCHANGED Pipe!vars /\ PipeType' /\ conn # "open"
  BY DEF Arrive, PipeInv, PipeType, Pipe!vars
<1>2. \A d \in Dirs : Flow(d)'
  BY <1>1, Untouched DEF Arrive, PipeInv, PipeType
<1> QED
  BY <1>1, <1>2 DEF Arrive, PipeInv

\* A break of the pipe that ends no direction.
LEMMA Breaks ==
    ASSUME PipeType, broken' = TRUE, UNCHANGED <<sent, fin, got, eof>>
    PROVE  Pipe!Next
<1>1. fin' = [d \in Dirs |-> fin[d] \/ d \in {}]
  BY DEF PipeType
<1>2. {} \in SUBSET Dirs
  OBVIOUS
<1> QED
  BY <1>1, <1>2, Zenon DEF Pipe!Next, Pipe!Break

LEMMA CutStep == ASSUME PipeInv, Cut PROVE PipeInv' /\ [Pipe!Next]_(Pipe!vars)
<1>1. PipeType' /\ UNCHANGED <<inq, outq, dead, sent, fin, got, eof>>
  BY DEF Cut, PipeInv, PipeType, Copiers
<1>2. \A d \in Dirs : copier'[d] = "none"
  BY DEF Cut
<1>3. CASE conn \in {"dial", "open"}
  <2>1. broken' = TRUE /\ conn' = "closed"
    BY <1>3, Zenon DEF Cut
  <2>2. ASSUME NEW d \in Dirs PROVE Flow(d)'
    <3>1. OnTheWay(d)' <= sent[d]
      <4>1. /\ got[d] \in Nat /\ outq[d] \in Nat /\ inq[d] \in Nat /\ sent[d] \in Nat
            /\ Carried(d) \in {0, 1} /\ OnTheWay(d) <= sent[d]
        BY Counts DEF PipeInv, Flow
      <4>2. OnTheWay(d)' = got[d] + outq[d] + inq[d] + 0
        BY <1>1, <1>2 DEF OnTheWay, Carried
      <4> QED
        BY <4>1, <4>2 DEF OnTheWay
    <3> QED
      BY <1>1, <1>2, <2>1, <3>1 DEF Flow
  <2>3. Pipe!Next
    BY <1>1, <2>1, Breaks DEF PipeInv
  <2> QED
    BY <1>1, <2>1, <2>2, <2>3 DEF PipeInv
<1>4. CASE conn \notin {"dial", "open"}
  <2>1. UNCHANGED <<conn, ended, broken>>
    BY <1>4 DEF Cut, PipeInv, PipeType
  <2>2. \A d \in Dirs : Flow(d)'
    BY <1>1, <1>2, <1>4, <2>1 DEF PipeInv, PipeType, Copiers, Flow, OnTheWay, Carried
  <2>3. UNCHANGED Pipe!vars
    BY <1>1, <2>1 DEF Pipe!vars
  <2> QED
    BY <1>1, <2>1, <2>2, <2>3 DEF PipeInv
<1> QED
  BY <1>3, <1>4

LEMMA DialStep == ASSUME PipeInv, DialTarget PROVE PipeInv' /\ [Pipe!Next]_(Pipe!vars)
<1>1. conn = "dial" /\ ended = {} /\ UNCHANGED <<inq, outq, dead, sent, fin, got, eof>>
  BY DEF DialTarget, PipeInv
<1>2. \A d \in Dirs : copier[d] \in {"none", "done"}
  BY <1>1 DEF PipeInv, PipeType, Flow, Copiers
<1>3. CASE conn' = "open" /\ copier' = [d \in Dirs |-> "read"] /\ UNCHANGED <<ended, broken>>
  <2>1. PipeType' /\ UNCHANGED Pipe!vars
    BY <1>1, <1>3 DEF PipeInv, PipeType, Copiers, Pipe!vars
  <2>2. \A d \in Dirs : OnTheWay(d)' = OnTheWay(d)
    BY <1>1, <1>2, <1>3 DEF OnTheWay, Carried
  <2>3. \A d \in Dirs : Flow(d)'
    BY <1>1, <1>3, <2>2 DEF PipeInv, Flow
  <2> QED
    BY <1>1, <1>3, <2>1, <2>3 DEF PipeInv
<1>4. CASE conn' = "closed" /\ ended' = {"down"} /\ broken' = TRUE /\ UNCHANGED copier
  <2>1. PipeType' /\ Pipe!Next
    BY <1>1, <1>4, Breaks DEF PipeInv, PipeType
  <2>2. \A d \in Dirs : OnTheWay(d)' = OnTheWay(d)
    BY <1>1, <1>4 DEF OnTheWay, Carried
  <2>3. \A d \in Dirs : Flow(d)'
    BY <1>1, <1>2, <1>4, <2>2 DEF PipeInv, Flow
  <2> QED
    BY <1>1, <1>4, <2>1, <2>3 DEF PipeInv
<1> QED
  BY <1>3, <1>4, Zenon DEF DialTarget

\* A step of one direction.
LEMMA OneDirection ==
    ASSUME PipeInv, NEW d \in Dirs, PipeType', Flow(d)', UNCHANGED <<conn, dead, broken>>,
           conn = "open" \/ ended' = ended,
           \A x \in Dirs : x # d =>
              /\ copier'[x] = copier[x] /\ inq'[x] = inq[x] /\ outq'[x] = outq[x]
              /\ sent'[x] = sent[x] /\ got'[x] = got[x] /\ fin'[x] = fin[x]
              /\ x \in ended' => x \in ended
    PROVE  PipeInv'
<1>1. ASSUME NEW x \in Dirs, x # d PROVE Flow(x)'
  <2>1. broken' \in BOOLEAN
    BY DEF PipeType
  <2> QED
    BY <1>1, <2>1, Untouched
<1> QED
  BY <1>1 DEF PipeInv

LEMMA CopyStep ==
    ASSUME PipeInv, NEW d \in Dirs, Copy(d)
    PROVE  PipeInv' /\ UNCHANGED Pipe!vars
<1>0. /\ UNCHANGED Pipe!vars /\ UNCHANGED <<conn, dead, sent, fin, got, eof, broken>>
  BY DEF Copy, CopyRead, CopyWrite, CopyReturns, CloseWrite, Pipe!vars
<1>1. /\ got[d] \in Nat /\ outq[d] \in Nat /\ inq[d] \in Nat /\ sent[d] \in Nat
      /\ Flow(d) /\ PipeType
  BY Counts DEF PipeInv
<1>2. CASE CopyRead(d)
  <2>1. /\ copier[d] = "read" /\ inq[d] > 0 /\ inq' = [inq EXCEPT ![d] = inq[d] - 1]
        /\ copier' = [copier EXCEPT ![d] = "write"] /\ UNCHANGED <<outq, ended>>
    BY <1>2 DEF CopyRead
  <2>2. inq'[d] = inq[d] - 1 /\ copier'[d] = "write" /\ inq[d] - 1 \in Nat
    BY <1>1, <2>1 DEF PipeType
  <2>3. PipeType'
    BY <1>0, <1>1, <2>1, <2>2 DEF PipeType, Copiers
  <2>4. OnTheWay(d)' = OnTheWay(d)
    <3>1. /\ OnTheWay(d) = got[d] + outq[d] + inq[d] + 0
          /\ OnTheWay(d)' = got[d] + outq[d] + (inq[d] - 1) + 1
      BY <1>0, <2>1, <2>2 DEF OnTheWay, Carried
    <3> QED
      BY <1>1, <3>1
  <2>5. ~broken => d \notin ended
    BY <1>1, <2>1 DEF Flow
  <2>6. Flow(d)'
    BY <1>0, <1>1, <2>1, <2>2, <2>4, <2>5 DEF Flow
  <2> QED
    BY <1>0, <1>1, <2>1, <2>3, <2>6, OneDirection, Zenon DEF PipeType
<1>3. CASE CopyWrite(d)
  <2>1. /\ copier[d] = "write" /\ outq' = [outq EXCEPT ![d] = outq[d] + 1]
        /\ copier' = [copier EXCEPT ![d] = "read"] /\ UNCHANGED <<inq, ended>>
    BY <1>3 DEF CopyWrite
  <2>2. outq'[d] = outq[d] + 1 /\ copier'[d] = "read"
    BY <1>1, <2>1 DEF PipeType
  <2>3. PipeType'
    BY <1>0, <1>1, <2>1, <2>2 DEF PipeType, Copiers
  <2>4. OnTheWay(d)' = OnTheWay(d)
    <3>1. /\ OnTheWay(d) = got[d] + outq[d] + inq[d] + 1
          /\ OnTheWay(d)' = got[d] + (outq[d] + 1) + inq[d] + 0
      BY <1>0, <2>1, <2>2 DEF OnTheWay, Carried
    <3> QED
      BY <1>1, <3>1
  <2>5. ~broken => d \notin ended
    BY <1>1, <2>1 DEF Flow
  <2>6. Flow(d)'
    BY <1>0, <1>1, <2>1, <2>2, <2>4, <2>5 DEF Flow
  <2> QED
    BY <1>0, <1>1, <2>1, <2>3, <2>6, OneDirection, ZenonT(60) DEF PipeType
<1>4. CASE CopyReturns(d)
  <2>1. /\ copier' = [copier EXCEPT ![d] = "half"] /\ UNCHANGED <<inq, outq, ended>>
        /\ copier[d] \in {"read", "write"} /\ conn = "open"
        /\ ~broken => copier[d] = "read" /\ inq[d] = 0 /\ fin[d]
    BY <1>1, <1>4 DEF CopyReturns, PipeInv, Flow
  <2>2. copier'[d] = "half" /\ PipeType'
    BY <1>0, <1>1, <2>1 DEF PipeType, Copiers
  <2>3. OnTheWay(d)' <= OnTheWay(d) /\ (~broken => OnTheWay(d)' = OnTheWay(d))
        /\ OnTheWay(d) \in Nat /\ OnTheWay(d)' \in Nat
    <3>1. /\ OnTheWay(d) = got[d] + outq[d] + inq[d] + (IF copier[d] = "write" THEN 1 ELSE 0)
          /\ OnTheWay(d)' = got[d] + outq[d] + inq[d] + 0
      BY <1>0, <2>1, <2>2, ZenonT(60) DEF OnTheWay, Carried
    <3> QED
      BY <1>1, <2>1, <3>1
  <2>5. ~broken => d \notin ended
    BY <1>1, <2>1, ZenonT(60) DEF Flow
  <2>6. OnTheWay(d)' <= sent[d]
    BY <1>1, <2>3 DEF Flow
  <2>7. Flow(d)'
    BY <1>0, <1>1, <2>1, <2>2, <2>3, <2>5, <2>6, ZenonT(60) DEF Flow
  <2> QED
    BY <1>0, <1>1, <2>1, <2>2, <2>7, OneDirection, Zenon DEF PipeType
<1>5. CASE CloseWrite(d)
  <2>1. /\ copier' = [copier EXCEPT ![d] = "done"] /\ UNCHANGED <<inq, outq>>
        /\ copier[d] = "half" /\ conn = "open" /\ ended' = ended \cup {d}
    BY <1>1, <1>5 DEF CloseWrite, Flow
  <2>2. copier'[d] = "done" /\ PipeType'
    BY <1>0, <1>1, <2>1 DEF PipeType, Copiers
  <2>3. OnTheWay(d)' = OnTheWay(d)
    BY <1>0, <2>1, <2>2 DEF OnTheWay, Carried
  <2>4. Flow(d)'
    BY <1>0, <1>1, <2>1, <2>2, <2>3 DEF Flow
  <2> QED
    BY <1>0, <1>1, <2>1, <2>2, <2>4, OneDirection, Zenon DEF PipeType
<1> QED
  BY <1>0, <1>2, <1>3, <1>4, <1>5 DEF Copy

LEMMA CloseBothStep == ASSUME PipeInv, CloseBoth PROVE PipeInv' /\ UNCHANGED Pipe!vars
<1>1. /\ UNCHANGED <<inq, outq, copier, ended, dead, sent, fin, got, eof, broken>>
      /\ conn' = "closed" /\ \A d \in Dirs : copier[d] = "done"
  BY DEF CloseBoth
<1>2. \A d \in Dirs : OnTheWay(d)' = OnTheWay(d)
  BY <1>1 DEF OnTheWay, Carried
<1>3. \A d \in Dirs : Flow(d)'
  BY <1>1, <1>2 DEF PipeInv, Flow
<1> QED
  BY <1>1, <1>3 DEF PipeInv, PipeType, Pipe!vars

\* A piece that enters at one end of a sum of counts.
LEMMA Pieces ==
    ASSUME NEW g \in Nat, NEW o \in Nat, NEW i \in Nat, NEW c \in {0, 1}, NEW s \in Nat
    PROVE  /\ g + o + (i + 1) + c = (g + o + i + c) + 1
           /\ o > 0 /\ g + o + i + c <= s => g < s
OBVIOUS

\* The source writes or ends its direction; the sink reads.
LEMMA SendStep ==
    ASSUME PipeInv, NEW d \in Dirs, EndSends(d)
    PROVE  PipeInv' /\ Pipe!Next
<1>1. /\ ~fin[d] /\ sent[d] < MaxSent /\ UNCHANGED <<conn, outq, copier, ended, dead, fin, got, eof, broken>>
      /\ sent' = [sent EXCEPT ![d] = sent[d] + 1] /\ inq' = [inq EXCEPT ![d] = inq[d] + 1]
  BY DEF EndSends
<1>2. /\ got[d] \in Nat /\ outq[d] \in Nat /\ inq[d] \in Nat /\ sent[d] \in Nat
      /\ Flow(d) /\ PipeType /\ Carried(d) \in {0, 1} /\ OnTheWay(d) \in Nat
  BY Counts DEF PipeInv
<1>3. Pipe!Next
  BY <1>1, Zenon DEF Pipe!Next, Pipe!Send
<1>4. sent'[d] = sent[d] + 1 /\ inq'[d] = inq[d] + 1 /\ PipeType'
  BY <1>1, <1>2 DEF PipeType
<1>5. OnTheWay(d)' = OnTheWay(d) + 1
  <2>1. OnTheWay(d)' = got[d] + outq[d] + (inq[d] + 1) + Carried(d)
    BY <1>1, <1>4, ZenonT(60) DEF OnTheWay, Carried
  <2>2. OnTheWay(d) = got[d] + outq[d] + inq[d] + Carried(d)
    BY Zenon DEF OnTheWay
  <2>3. got[d] + outq[d] + (inq[d] + 1) + Carried(d) = (got[d] + outq[d] + inq[d] + Carried(d)) + 1
    BY <1>2, Pieces
  <2> QED
    BY <2>1, <2>2, <2>3, Zenon
<1>6. OnTheWay(d)' <= sent'[d] /\ (~broken => OnTheWay(d)' = sent'[d])
  BY <1>2, <1>4, <1>5 DEF Flow
<1>7. Flow(d)'
  BY <1>1, <1>2, <1>4, <1>6, ZenonT(60) DEF Flow
<1> QED
  BY <1>1, <1>2, <1>3, <1>4, <1>7, OneDirection, ZenonT(60) DEF PipeType

LEMMA FinishStep ==
    ASSUME PipeInv, NEW d \in Dirs, EndFinishes(d)
    PROVE  PipeInv' /\ Pipe!Next
<1>1. /\ ~fin[d] /\ UNCHANGED <<conn, inq, outq, copier, ended, dead, sent, got, eof, broken>>
      /\ fin' = [fin EXCEPT ![d] = TRUE]
  BY DEF EndFinishes
<1>2. Pipe!Next
  BY <1>1, Zenon DEF Pipe!Next, Pipe!Finish
<1>3. PipeType' /\ fin'[d]
  BY <1>1 DEF PipeInv, PipeType
<1>4. OnTheWay(d)' = OnTheWay(d)
  BY <1>1 DEF OnTheWay, Carried
<1>5. Flow(d)'
  BY <1>1, <1>3, <1>4, ZenonT(60) DEF PipeInv, Flow
<1> QED
  BY <1>1, <1>2, <1>3, <1>5, OneDirection, Zenon DEF PipeInv, PipeType

LEMMA ReadStep ==
    ASSUME PipeInv, NEW d \in Dirs, EndReads(d)
    PROVE  PipeInv' /\ Pipe!Next
<1>0. ~eof[d] /\ UNCHANGED <<conn, inq, copier, ended, dead, sent, fin, broken>>
  BY DEF EndReads
<1>1. /\ got[d] \in Nat /\ outq[d] \in Nat /\ inq[d] \in Nat /\ sent[d] \in Nat
      /\ Flow(d) /\ PipeType /\ Carried(d) \in {0, 1} /\ OnTheWay(d) <= sent[d]
  BY Counts, Zenon DEF PipeInv, Flow
<1>2. CASE /\ outq[d] > 0 /\ outq' = [outq EXCEPT ![d] = outq[d] - 1]
           /\ got' = [got EXCEPT ![d] = got[d] + 1] /\ UNCHANGED eof
  <2>1. got[d] < sent[d]
    BY <1>1, <1>2, Pieces, Zenon DEF OnTheWay
  <2>2. Pipe!Next
    BY <1>0, <1>2, <2>1, Zenon DEF Pipe!Next, Pipe!Deliver
  <2>3. outq'[d] = outq[d] - 1 /\ outq[d] - 1 \in Nat /\ got'[d] = got[d] + 1
    BY <1>1, <1>2 DEF PipeType
  <2>4. PipeType'
    BY <1>0, <1>1, <1>2, <2>3 DEF PipeType
  <2>5. OnTheWay(d)' = OnTheWay(d)
    <3>1. OnTheWay(d)' = (got[d] + 1) + (outq[d] - 1) + inq[d] + Carried(d)
      BY <1>0, <2>3, Zenon DEF OnTheWay, Carried
    <3>2. OnTheWay(d) = got[d] + outq[d] + inq[d] + Carried(d)
      BY Zenon DEF OnTheWay
    <3>3. (got[d] + 1) + (outq[d] - 1) + inq[d] + Carried(d)
            = got[d] + outq[d] + inq[d] + Carried(d)
      <4> DEFINE g == got[d]
                 o == outq[d]
                 i == inq[d]
                 c == Carried(d)
      <4>1. g \in Nat /\ o \in Nat /\ i \in Nat /\ c \in {0, 1}
        BY <1>1, Zenon
      <4> HIDE DEF g, o, i, c
      <4>2. (g + 1) + (o - 1) + i + c = g + o + i + c
        BY <4>1
      <4> QED
        BY <4>2, Zenon DEF g, o, i, c
    <3> QED
      BY <3>1, <3>2, <3>3, Zenon
  <2>6. Flow(d)'
    BY <1>0, <1>1, <2>5, Zenon DEF Flow
  <2> QED
    BY <1>0, <1>1, <1>2, <2>2, <2>4, <2>6, OneDirection, ZenonT(60) DEF PipeType
<1>3. CASE outq[d] = 0 /\ d \in ended /\ eof' = [eof EXCEPT ![d] = TRUE] /\ UNCHANGED <<outq, got>>
  <2>1. ~broken => fin[d] /\ got[d] = sent[d]
    <3>1. ~broken => fin[d] /\ inq[d] = 0 /\ Carried(d) = 0 /\ OnTheWay(d) = sent[d]
      BY <1>1, <1>3, Zenon DEF Flow, Carried
    <3> QED
      <4>1. ~broken => got[d] + 0 + 0 + 0 = sent[d]
        BY <1>3, <3>1, Zenon DEF OnTheWay
      <4>2. \A n \in Nat : n + 0 + 0 + 0 = n
        OBVIOUS
      <4> QED
        BY <1>1, <3>1, <4>1, <4>2, Zenon
  <2>2. Pipe!Next
    BY <1>0, <1>1, <1>3, <2>1, Zenon DEF Pipe!Next, Pipe!End, PipeType
  <2>3. PipeType'
    BY <1>0, <1>1, <1>3 DEF PipeType
  <2>4. OnTheWay(d)' = OnTheWay(d)
    BY <1>0, <1>3, Zenon DEF OnTheWay, Carried
  <2>5. Flow(d)'
    BY <1>0, <1>1, <2>4, ZenonT(60) DEF Flow
  <2> QED
    BY <1>0, <1>1, <1>3, <2>2, <2>3, <2>5, OneDirection, Zenon
<1> QED
  BY <1>2, <1>3 DEF EndReads

\* An end that closes or resets its connection breaks the pipe and ends its direction.
LEMMA DieStep ==
    ASSUME PipeInv, NEW e \in Ends, EndDies(e)
    PROVE  PipeInv' /\ Pipe!Next
<1>1. /\ broken' = TRUE /\ fin' = [d \in Dirs |-> fin[d] \/ Source(d) = e]
      /\ UNCHANGED <<conn, inq, outq, copier, ended, sent, got, eof>>
  BY DEF EndDies
<1>2. Pipe!Next
  <2> DEFINE D == {d \in Dirs : Source(d) = e}
  <2>1. D \in SUBSET Dirs /\ fin' = [d \in Dirs |-> fin[d] \/ d \in D]
    BY <1>1
  <2> QED
    BY <1>1, <2>1, Zenon DEF Pipe!Next, Pipe!Break
<1>3. PipeType'
  BY <1>1 DEF PipeInv, PipeType
<1>4. \A d \in Dirs : OnTheWay(d)' = OnTheWay(d)
  BY <1>1, Zenon DEF OnTheWay, Carried
<1>5. \A d \in Dirs : Flow(d)'
  BY <1>1, <1>4, Zenon DEF PipeInv, Flow
<1> QED
  BY <1>1, <1>2, <1>3, <1>5 DEF PipeInv

-----------------------------------------------------------------------------
(***************************************************************************)
(* The main goroutine: what is known at each point of launch and of bridge.   *)
(* The application is not in the way of the gate and the routes, and only the *)
(* loop of reap, once Wait4 returned the application, sets a status.          *)
(***************************************************************************)
HelperInv ==
    /\ pc \in {"gate", "answer", "routes", "start", "serve", "notify", "wait", "exit"}
    /\ pc \in {"routes", "start", "serve", "notify", "wait"} => answer = "READY"
    /\ pc \in {"start", "serve", "notify", "wait"} => bound = Routes
    /\ pc \in {"gate", "answer", "routes", "start", "serve"} => child = None
    /\ App \in zombies => child = "over"
    /\ status # NoStatus => pc \in {"wait", "exit"}
    /\ StartGated
    /\ StatusOfApp

\* The step of a connection, or none.
PipeStep == Pipe!Next \/ UNCHANGED Pipe!vars

LEMMA ExitStep ==
    ASSUME HelperInv, PipeInv, NEW c, ExitWith(c),
           pc \notin {"wait", "exit"} \/ c = Code(status)
    PROVE  HelperInv' /\ PipeInv' /\ PipeStep
<1>1. /\ pc' = "exit" /\ code' = c /\ UNCHANGED <<answer, bound, zombies, status>>
      /\ \/ child = "alive" /\ child' = "over"
         \/ UNCHANGED <<child, end>>
  BY DEF ExitWith, gate
<1>2. PipeInv' /\ PipeStep
  BY CutStep DEF ExitWith, PipeStep
<1>3. StartGated'
  BY <1>1 DEF HelperInv, StartGated, None
<1>4. StatusOfApp'
  BY <1>1 DEF HelperInv, StatusOfApp
<1>5. App \in zombies' => child' = "over"
  BY <1>1 DEF HelperInv
<1> QED
  BY <1>1, <1>2, <1>3, <1>4, <1>5 DEF HelperInv

LEMMA BridgeKept ==
    ASSUME PipeInv, UNCHANGED bridgevars
    PROVE  PipeInv' /\ PipeStep
<1>1. \A d \in Dirs : Carried(d)' = Carried(d)
  BY DEF bridgevars, Carried
<1>2. \A d \in Dirs : OnTheWay(d)' = OnTheWay(d)
  BY <1>1, Zenon DEF bridgevars, OnTheWay
<1>3. \A d \in Dirs : Flow(d)'
  BY <1>2, Zenon DEF bridgevars, Flow, PipeInv
<1> QED
  BY <1>3 DEF bridgevars, PipeInv, PipeType, PipeStep, Pipe!vars

LEMMA HelperStep ==
    ASSUME HelperInv, PipeInv, Helper \/ BridgeFails
    PROVE  HelperInv' /\ PipeInv' /\ PipeStep
<1> USE DEF None
<1>1. CASE DialAgent
  <2>1. pc = "gate"
    BY <1>1 DEF DialAgent
  <2>2. CASE ExitWith(1)
    BY <2>1, <2>2, ExitStep
  <2>3. CASE ~ExitWith(1)
    <3>1. /\ pc' \in {"gate", "answer"} /\ UNCHANGED bridgevars
          /\ UNCHANGED <<answer, bound, child, end, zombies, status, code>>
      BY <1>1, <2>3 DEF DialAgent, Goto, gate, routes, processes, result
    <3>2. HelperInv'
      BY <2>1, <3>1 DEF HelperInv, StartGated, StatusOfApp
    <3> QED
      BY <3>1, <3>2, BridgeKept
  <2> QED
    BY <2>2, <2>3
<1>2. CASE ReadAnswer
  <2>1. pc = "answer"
    BY <1>2 DEF ReadAnswer
  <2>2. CASE ExitWith(1)
    BY <2>1, <2>2, ExitStep
  <2>3. CASE ~ExitWith(1)
    <3>1. /\ pc' = "routes" /\ answer' = "READY" /\ UNCHANGED bridgevars
          /\ UNCHANGED <<bound, child, end, zombies, status, code>>
      BY <1>2, <2>3 DEF ReadAnswer, Goto, routes, processes, result
    <3>2. HelperInv'
      BY <2>1, <3>1 DEF HelperInv, StartGated, StatusOfApp
    <3> QED
      BY <3>1, <3>2, BridgeKept
  <2> QED
    BY <2>2, <2>3
<1>3. CASE OpenRoute
  <2>1. pc = "routes"
    BY <1>3 DEF OpenRoute
  <2>2. CASE ExitWith(1)
    BY <2>1, <2>2, ExitStep
  <2>3. CASE ~ExitWith(1)
    <3>1. /\ UNCHANGED bridgevars
          /\ UNCHANGED <<answer, child, end, zombies, status, code>>
          /\ \/ pc' = "routes"
             \/ pc' \in {"start", "serve"} /\ bound' = Routes
      BY <1>3, <2>3 DEF OpenRoute, Goto, gate, routes, processes, result
    <3>2. HelperInv'
      BY <2>1, <3>1 DEF HelperInv, StartGated, StatusOfApp
    <3> QED
      BY <3>1, <3>2, BridgeKept
  <2> QED
    BY <2>2, <2>3
<1>4. CASE Start
  <2>1. pc = "start"
    BY <1>4 DEF Start
  <2>2. CASE ExitWith(1)
    BY <2>1, <2>2, ExitStep
  <2>3. CASE ~ExitWith(1)
    <3>1. /\ pc' = "notify" /\ child' = "alive" /\ UNCHANGED bridgevars
          /\ UNCHANGED <<answer, bound, end, zombies, status, code>>
      BY <1>4, <2>3 DEF Start, gate, routes, result
    <3>2. HelperInv'
      BY <2>1, <3>1 DEF HelperInv, StartGated, StatusOfApp
    <3> QED
      BY <3>1, <3>2, BridgeKept
  <2> QED
    BY <2>2, <2>3
<1>5. CASE Notify
  <2>1. /\ pc = "notify" /\ pc' = "wait" /\ UNCHANGED bridgevars
        /\ UNCHANGED <<answer, bound, child, end, zombies, status, code>>
    BY <1>5 DEF Notify, Goto, gate, routes, processes, result
  <2>2. HelperInv'
    BY <2>1 DEF HelperInv, StartGated, StatusOfApp
  <2> QED
    BY <2>1, <2>2, BridgeKept
<1>6. CASE Supervise
  BY <1>6, ExitStep DEF Supervise
<1>7. ASSUME NEW p \in Orphans \cup {App}, Reap(p)
      PROVE  HelperInv' /\ PipeInv' /\ PipeStep
  <2>1. /\ pc = "wait" /\ status = NoStatus /\ p \in zombies /\ zombies' = zombies \ {p}
        /\ status' = IF p = App THEN end ELSE NoStatus
        /\ UNCHANGED <<pc, answer, bound, child, end>> /\ UNCHANGED bridgevars
    BY <1>7 DEF Reap, gate, routes
  <2>2. HelperInv'
    BY <2>1 DEF HelperInv, StartGated, StatusOfApp
  <2> QED
    BY <2>1, <2>2, BridgeKept
<1>8. CASE BridgeFails
  BY <1>8, ExitStep DEF BridgeFails
<1> QED
  BY <1>1, <1>2, <1>3, <1>4, <1>5, <1>6, <1>7, <1>8 DEF Helper

LEMMA HelperKept ==
    ASSUME HelperInv, UNCHANGED <<pc, answer, bound, child, end, zombies, status, code>>
    PROVE  HelperInv'
BY DEF HelperInv, StartGated, StatusOfApp

LEMMA ConnectionStep ==
    ASSUME HelperInv, PipeInv, Connection
    PROVE  HelperInv' /\ PipeInv' /\ PipeStep
<1>1. HelperInv'
  <2>1. UNCHANGED <<pc, answer, bound, child, end, zombies, status, code>>
    BY ZenonT(60) DEF Connection, InBridge, gate, routes, processes, result
  <2> QED
    BY <2>1, HelperKept
<1>2. PipeInv' /\ PipeStep
  <2>1. CASE Arrive
    BY <2>1, ArriveStep DEF PipeStep
  <2>2. CASE DialTarget
    BY <2>2, DialStep DEF PipeStep
  <2>3. CASE CloseBoth
    BY <2>3, CloseBothStep DEF PipeStep
  <2>4. ASSUME NEW d \in Dirs, Copy(d) PROVE PipeInv' /\ PipeStep
    BY <2>4, CopyStep DEF PipeStep
  <2>5. ASSUME NEW d \in Dirs, EndSends(d) \/ EndFinishes(d) \/ EndReads(d)
        PROVE  PipeInv' /\ PipeStep
    BY <2>5, SendStep, FinishStep, ReadStep DEF PipeStep
  <2>6. ASSUME NEW e \in Ends, EndDies(e) PROVE PipeInv' /\ PipeStep
    BY <2>6, DieStep DEF PipeStep
  <2>7. CASE Endpoint
    BY <2>5, <2>6, <2>7 DEF Endpoint
  <2> QED
    BY <2>1, <2>2, <2>3, <2>4, <2>7 DEF Connection, InBridge
<1> QED
  BY <1>1, <1>2

LEMMA FaultStep ==
    ASSUME HelperInv, PipeInv,
           Faults \/ ForwardSignal \/ \E s \in Signals : PassSignal(s)
    PROVE  HelperInv' /\ PipeInv' /\ PipeStep
<1>1. ASSUME NEW r \in Routes, AcceptFails(r) PROVE HelperInv' /\ PipeInv' /\ PipeStep
  BY <1>1, HelperKept, BridgeKept DEF AcceptFails, gate, processes, result
<1>2. ASSUME NEW s \in Signals, Kill(s) PROVE HelperInv' /\ PipeInv' /\ PipeStep
  <2>1. CASE pc # "wait" /\ ExitWith(128 + s)
    <3>1. pc \notin {"wait", "exit"}
      BY <1>2, <2>1 DEF Kill
    <3> QED
      BY <2>1, <3>1, ExitStep
  <2>2. CASE UNCHANGED <<bridgevars, pc, gate, routes, processes, result>>
    BY <2>2, HelperKept, BridgeKept DEF gate, routes, processes, result
  <2> QED
    BY <1>2, <2>1, <2>2, Zenon DEF Kill
<1>3. CASE AppEnds
  <2>1. /\ child = "alive" /\ child' = "over" /\ UNCHANGED bridgevars
        /\ UNCHANGED <<pc, answer, bound, status, code>>
    BY <1>3 DEF AppEnds, gate, routes, result
  <2>2. StartGated' /\ StatusOfApp'
    BY <2>1 DEF HelperInv, StartGated, StatusOfApp, None
  <2>3. HelperInv'
    BY <2>1, <2>2, ZenonT(60) DEF HelperInv, None
  <2> QED
    BY <2>1, <2>3, BridgeKept
<1>4. ASSUME NEW o \in Orphans, NEW c \in Codes, OrphanEnds(o, c)
      PROVE  HelperInv' /\ PipeInv' /\ PipeStep
  <2>1. /\ zombies' = zombies \cup {o} /\ UNCHANGED bridgevars
        /\ UNCHANGED <<pc, answer, bound, child, end, status, code>>
    BY <1>4 DEF OrphanEnds, gate, routes, result
  <2>2. App \in zombies' => App \in zombies
    BY <2>1, ContainerAssumption DEF App
  <2>3. HelperInv'
    BY <2>1, <2>2 DEF HelperInv, StartGated, StatusOfApp
  <2> QED
    BY <2>1, <2>3, BridgeKept
<1>5. CASE ForwardSignal \/ \E s \in Signals : PassSignal(s)
  BY <1>5, HelperKept, BridgeKept, Zenon
     DEF ForwardSignal, PassSignal, gate, routes, processes, result
<1> QED
  BY <1>1, <1>2, <1>3, <1>4, <1>5 DEF Faults
-----------------------------------------------------------------------------
LEMMA Starts == Init => HelperInv /\ PipeInv /\ Pipe!Init
<1> SUFFICES ASSUME Init PROVE HelperInv /\ PipeInv /\ Pipe!Init
  OBVIOUS
<1>1. PipeInv /\ Pipe!Init
  BY PipeStart DEF Init
<1>2. /\ pc \in {"gate", "routes"} /\ (pc = "routes" => answer = "READY")
      /\ child = None /\ zombies = {} /\ status = NoStatus
  BY DEF Init
<1>3. HelperInv
  BY <1>2 DEF HelperInv, StartGated, StatusOfApp
<1> QED
  BY <1>1, <1>3

LEMMA Steps ==
    HelperInv /\ PipeInv /\ [Next]_vars => HelperInv' /\ PipeInv' /\ [Pipe!Next]_(Pipe!vars)
<1> SUFFICES ASSUME HelperInv, PipeInv, [Next]_vars
             PROVE  HelperInv' /\ PipeInv' /\ PipeStep
  BY DEF PipeStep
<1>1. CASE Helper \/ BridgeFails
  BY <1>1, HelperStep
<1>2. CASE Connection
  BY <1>2, ConnectionStep
<1>3. CASE Faults \/ ForwardSignal \/ \E s \in Signals : PassSignal(s)
  BY <1>3, FaultStep
<1>4. CASE UNCHANGED vars
  BY <1>4, HelperKept, BridgeKept, ZenonT(60) DEF vars, gate, routes, processes, result
<1> QED
  BY <1>1, <1>2, <1>3, <1>4 DEF Next, Over

\* Both invariants are inductive; the connection's does not need the helper's, but
\* the helper may go away in the middle of a connection.
THEOREM HelperInductive == Spec => [](HelperInv /\ PipeInv)
<1> QED
  BY Starts, Steps, PTL DEF Spec

\* proxy and closeWrite, for any amount of data, any buffer and any fault: no end
\* reads what was not sent, reads more after the end, or reads the end of an
\* unbroken direction before everything that was sent on it.
THEOREM BridgeIsPipe == Spec => Pipe!Safe
<1> QED
  BY Starts, Steps, PTL DEF Spec, Pipe!Safe

\* launchCommand: the application never runs before the agent said READY and every
\* route of the configuration is open.
THEOREM StartGatedCorrect == Spec => []StartGated
<1>1. HelperInv => StartGated
  BY DEF HelperInv
<1> QED
  BY <1>1, HelperInductive, PTL

\* supervise and reap: the status that ends the helper, and its exit code, are those
\* of the application, however many orphans PID 1 reaps before or after it.
THEOREM StatusOfAppCorrect == Spec => []StatusOfApp
<1>1. HelperInv => StatusOfApp
  BY DEF HelperInv
<1> QED
  BY <1>1, HelperInductive, PTL
=============================================================================
