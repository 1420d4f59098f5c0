--------------------------- MODULE ApprovalLedger ---------------------------
(***************************************************************************)
(* What the server half of the attestor promises to SPIRE, without streams, *)
(* locks, fetches or maps: a session is opened once with a deadline; it is    *)
(* admitted only while it is open and before its deadline, and granted at     *)
(* most once, only if it was admitted; a book grants one node at most Quota   *)
(* sessions in any Span ticks; and a session does not stay open for ever.    *)
(***************************************************************************)
EXTENDS Integers, FiniteSets

CONSTANTS Attempts, Claim, Books, Quota, Span

VARIABLES clock, status, book, deadline, grantedAt

lvars == <<clock, status, book, deadline, grantedAt>>

LedgerInit ==
    /\ clock = 0
    /\ status = [a \in Attempts |-> "new"]
    /\ book = [a \in Attempts |-> 0]
    /\ deadline = [a \in Attempts |-> 0]
    /\ grantedAt = [a \in Attempts |-> 0]

Open(a) ==
    /\ status[a] = "new"
    /\ status' = [status EXCEPT ![a] = "open"]
    /\ \E g \in Books : book' = [book EXCEPT ![a] = g]
    /\ deadline'[a] \in Nat
    /\ deadline' = [deadline EXCEPT ![a] = deadline'[a]]
    /\ UNCHANGED <<clock, grantedAt>>

GrantedLately(a) ==
    {b \in Attempts : /\ status[b] = "granted"
                      /\ book[b] = book[a] /\ Claim[b] = Claim[a]
                      /\ grantedAt[b] > clock - Span}

Admit(a) ==
    /\ status[a] = "open"
    /\ clock < deadline[a]
    /\ status' = [status EXCEPT ![a] = "admitted"]
    /\ UNCHANGED <<clock, book, deadline, grantedAt>>

Grant(a) ==
    /\ status[a] = "admitted"
    /\ Cardinality(GrantedLately(a)) < Quota
    /\ status' = [status EXCEPT ![a] = "granted"]
    /\ grantedAt' = [grantedAt EXCEPT ![a] = clock]
    /\ UNCHANGED <<clock, book, deadline>>

End(a) ==
    /\ status[a] \in {"open", "admitted"}
    /\ status' = [status EXCEPT ![a] = "over"]
    /\ UNCHANGED <<clock, book, deadline, grantedAt>>

Pass ==
    /\ clock' = clock + 1
    /\ UNCHANGED <<status, book, deadline, grantedAt>>

LedgerNext == Pass \/ \E a \in Attempts : Open(a) \/ Admit(a) \/ Grant(a) \/ End(a)

Safe == LedgerInit /\ [][LedgerNext]_lvars

Promise == Safe /\ \A a \in Attempts : WF_lvars(End(a))
=============================================================================
