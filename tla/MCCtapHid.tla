----------------------------- MODULE MCCtapHid -----------------------------
(***************************************************************************)
(* Model-checking instance of CtapHid.  Safety is checked with hosts that  *)
(* never stop sending.  For liveness the hosts fall silent after Budget    *)
(* packets: a host that floods the device keeps the send queue non-empty,  *)
(* and nothing in the code promises an answer then.                        *)
(***************************************************************************)
EXTENDS CtapHid

CONSTANT Budget     \* bound: the packets the hosts send in a liveness run

VARIABLE sent
mcVars == <<vars, sent>>

MCInit == Init /\ sent = 0

SafetySpec == MCInit /\ [][Next /\ sent' = sent]_mcVars

BudgetNext ==
    \/ /\ sent < Budget
       /\ sent' = sent + 1
       /\ \E p \in HostPackets : Receive(p)
    \/ sent' = sent /\ (SendOne \/ Task \/ Keepalive \/ Tick)

\* The host polls the IN endpoint, the main loop runs, the user presence wait
\* ends (30 seconds at most) and every CTAP handler returns.
LiveSpec ==
    /\ MCInit
    /\ [][BudgetNext]_mcVars
    /\ WF_mcVars(SendOne /\ sent' = sent)
    /\ WF_mcVars(Task /\ sent' = sent)

\* Every complete message is answered and the device is free again: neither
\* the wait for an empty queue nor the nested packet handling blocks it.
EveryMessageAnswered == CompleteMessageReady ~> IsIdle(buffer)
=============================================================================
