--------------------------- MODULE Authorization ---------------------------
(***************************************************************************)
(* What a pinUvAuthToken promises the user who entered a PIN: one platform *)
(* may act for the user, for one relying party, with the permissions it    *)
(* asked for, in one operation with user presence, for a limited time, and *)
(* no longer than the PIN stays.  How the authenticator keeps that -       *)
(* protocols with a token value each, one token state, timers that are     *)
(* looked at when a request comes - does not show here.                    *)
(*                                                                         *)
(* A grant records what its holder may still do, and what it has done.     *)
(***************************************************************************)
EXTENDS Naturals

CONSTANTS
    Holders,        \* bound: who can hold a grant: a platform over a protocol
    Permissions,    \* what a grant may be good for
    RpIds, NoRp,    \* bound: the relying parties; none bound
    Pins, NoPin,    \* bound: the PINs; none set
    MaxAge          \* max_usage_time_period

VARIABLES
    grants,     \* the grant that can be used, if there is one
    pin         \* the PIN

\* permissions, rp: what is left to its holder; age: the time since the PIN was entered,
\* and last at the last use; served, operations: the relying parties the user was verified
\* to, and how often with the user present.
NewGrant(holder, permissions, rp) ==
    [holder |-> holder, permissions |-> permissions, rp |-> rp,
     age |-> 0, last |-> 0, served |-> {}, operations |-> 0]

Init == grants = {} /\ pin = NoPin

\* Whoever enters the PIN takes the grant over from whoever had it.
Issue ==
    /\ pin # NoPin
    /\ \E g \in grants' :
          /\ g.holder \in Holders /\ g.permissions \subseteq Permissions /\ g.rp \in RpIds \cup {NoRp}
          /\ grants' = {NewGrant(g.holder, g.permissions, g.rp)}
    /\ UNCHANGED pin

Becomes(g, h) == grants' = (grants \ {g}) \cup {h} /\ UNCHANGED pin

Allows(g, permission, rp) ==
    permission \in g.permissions /\ g.rp \in {NoRp, rp} /\ g.age <= MaxAge

\* A request that is authorised but finds no credential, or no consent.
Bind(g, permission, rp) ==
    /\ Allows(g, permission, rp)
    /\ Becomes(g, [g EXCEPT !.rp = rp])

\* An assertion without user presence leaves its holder the permissions.
Assert(g, rp) ==
    /\ Allows(g, "ga", rp)
    /\ Becomes(g, [g EXCEPT !.rp = rp, !.last = g.age, !.served = @ \cup {rp}])

\* An operation with user presence is the last one.
Operate(g, permission, rp) ==
    /\ Allows(g, permission, rp)
    /\ Becomes(g, [g EXCEPT !.rp = rp, !.last = g.age, !.served = @ \cup {rp},
                            !.operations = @ + 1, !.permissions = {}])

\* Credential management is for no operation and serves no relying party.
Manage(g) ==
    /\ "cm" \in g.permissions /\ g.age <= MaxAge
    /\ Becomes(g, [g EXCEPT !.last = g.age])

\* Any operation with user presence uses the grant up, also one without a PIN.
Spend(g) == Becomes(g, [g EXCEPT !.permissions = {}])

\* It ends early when its time is over, with the power, a reset or another PIN; without a
\* grant the PIN may change all the same.
Revoke == grants' = {} /\ pin' \in Pins \cup {NoPin}

Pass ==
    /\ grants' = {[g EXCEPT !.age = @ + 1] : g \in grants}
    /\ UNCHANGED pin

Next ==
    \/ Issue
    \/ \E g \in grants :
          \/ \E permission \in {"mc", "ga"}, rp \in RpIds :
                Bind(g, permission, rp) \/ Operate(g, permission, rp)
          \/ \E rp \in RpIds : Assert(g, rp)
          \/ Manage(g)
          \/ Spend(g)
    \/ Revoke
    \/ Pass

Spec == Init /\ [][Next]_<<grants, pin>>
=============================================================================
