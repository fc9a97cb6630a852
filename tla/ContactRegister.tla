-------------------------- MODULE ContactRegister --------------------------
(***************************************************************************)
(* What the contact list promises, without snapshots, merges or a server:  *)
(* a contact is a register that the latest acceptance or removal wins.     *)
(* Every device has a view of every contact, a view only moves forward to  *)
(* something that was really accepted or removed, and the one thing a      *)
(* device may forget is a removal that is past its retention.              *)
(***************************************************************************)
EXTENDS Naturals

CONSTANTS
    Device, Contact,
    MaxTime,        \* the clock is 1..MaxTime
    Retention,      \* how long a removal is remembered
    NoTombstone     \* devices that remove a contact without recording it

VARIABLES now, issued, view

vars == <<now, issued, view>>

Never == [at |-> 0, removed |-> FALSE]
Stamps == [at : 1..MaxTime, removed : BOOLEAN]

(* A removal wins over an acceptance of the same second. *)
Later(s, t) == \/ s.at > t.at
               \/ s.at = t.at /\ s.removed /\ ~t.removed

Newest(s, t) == IF Later(s, t) THEN s ELSE t

Forgettable(s) == s.removed /\ now > s.at + Retention

(* What a view may become when its device synchronises. *)
MayBecome(c, s, t) ==
    \/ t = s
    \/ t \in issued[c] /\ Later(t, s)
    \/ Forgettable(s) /\ t \in issued[c] \cup {Never}

TypeOK ==
    /\ now \in 1..MaxTime
    /\ issued \in [Contact -> SUBSET Stamps]
    /\ view \in [Device -> [Contact -> Stamps \cup {Never}]]

Init ==
    /\ now = 1
    /\ issued = [c \in Contact |-> {}]
    /\ view = [d \in Device |-> [c \in Contact |-> Never]]

Tick == /\ now < MaxTime
        /\ now' = now + 1
        /\ UNCHANGED <<issued, view>>

Issue(d, c, s) ==
    /\ issued' = [issued EXCEPT ![c] = @ \cup {s}]
    /\ view' = [view EXCEPT ![d][c] = Newest(s, @)]
    /\ UNCHANGED now

Accept(d, c) == Issue(d, c, [at |-> now, removed |-> FALSE])
Remove(d, c) == Issue(d, c, [at |-> now, removed |-> TRUE])

Synchronise(d) ==
    /\ \E w \in [Contact -> Stamps \cup {Never}] :
         /\ \A c \in Contact : MayBecome(c, view[d][c], w[c])
         /\ view' = [view EXCEPT ![d] = w]
    /\ UNCHANGED <<now, issued>>

(* The device drops what it holds: nobody else hears of it, not even a     *)
(* later synchronisation of the device itself.                             *)
DropSilently(d, c) ==
    /\ d \in NoTombstone
    /\ \E s \in {r \in issued[c] : r.removed} \cup {Never} :
         view' = [view EXCEPT ![d][c] = s]
    /\ UNCHANGED <<now, issued>>

Next ==
    \/ Tick
    \/ \E d \in Device, c \in Contact :
         Accept(d, c) \/ Remove(d, c) \/ DropSilently(d, c)
    \/ \E d \in Device : Synchronise(d)

Spec == Init /\ [][Next]_vars
=============================================================================
