------------------------------- MODULE Platform -------------------------------
(***************************************************************************)
(* Transfers on the platform: the handlers of TransferSaga run in the      *)
(* gateway's process of Deployment, and end with it.                       *)
(*                                                                         *)
(* Bound: the first transfer is sent when everything is up, and from then  *)
(* on the gateway alone stops, crashes, is started again and dials.        *)
(***************************************************************************)
EXTENDS TransferSaga, Deployment

pvars == <<vars, dvars>>

PlatformInit == Init /\ DeploymentInit

Traffic == \E c \in Clients : pc[c] # "idle"

Steady ==
    /\ dbUp /\ told = {}
    /\ \A p \in Programs : at[p] = "serving"
    /\ \A t \in Tasks : mpc[t] \notin Working

HandlersRun == at["gateway"] \in {"serving", "draining"}

-----------------------------------------------------------------------------
\* A step before the first transfer.
Before(A) == ~Traffic /\ A /\ UNCHANGED vars

\* Every handler ends unanswered; the services go on with what they were sent.
CutOff ==
    /\ pc' = [c \in Clients |-> IF pc[c] \in Waiting THEN "done" ELSE pc[c]]
    /\ call' = [c \in Clients |-> IF pc[c] \in Waiting THEN "none" ELSE call[c]]
    /\ orphans' = orphans \cup UNION {Orphan(c) : c \in {d \in Clients : pc[d] \in Waiting}}
    /\ UNCHANGED <<wallet, audit, fraud, payload, status, result>>

\* A step of the gateway's process, with transfers.
During(A) ==
    /\ Traffic
    /\ A
    /\ \/ HandlersRun' /\ UNCHANGED vars
       \/ ~HandlersRun' /\ CutOff

HandlersEnd == StopGracefully("gateway") /\ \A c \in Clients : pc[c] \notin Waiting

\* A client is served by a gateway that serves.
Ask(A) == at["gateway"] = "serving" /\ A /\ UNCHANGED dvars

\* A step of a handler.
Handle(A) == HandlersRun /\ A /\ UNCHANGED dvars

PlatformNext ==
    \/ Before(DeploymentNext)
    \/ During(Run("gateway")) \/ During(Tell("gateway")) \/ During(Dies("gateway"))
    \/ During(HandlersEnd)
    \/ \E c \in Clients :
          \/ Ask(Submit(c) /\ (Traffic \/ Steady)) \/ Ask(Retry(c))
          \/ Handle(UsersKnown(c)) \/ Handle(UsersUnknown(c))
          \/ Handle(Allow(c)) \/ Handle(Deny(c))
          \/ Handle(WalletLookup(c)) \/ Handle(WalletTx(c))
          \/ Handle(Record(c)) \/ Handle(GiveUp(c))
    \/ \E o \in orphans : Late(o) /\ UNCHANGED dvars

(***************************************************************************)
(* Every process goes on, the orchestrator starts what is down, PostgreSQL *)
(* comes back, clients retry, and a call that is made again and again is   *)
(* answered at last.                                                       *)
(***************************************************************************)
PlatformSpec ==
    /\ PlatformInit /\ [][PlatformNext]_pvars
    /\ WF_pvars(Before(WaitEnds))
    /\ WF_pvars(Before(Recover))
    /\ WF_pvars(\E t \in Tasks : Before(TaskSteps(t)))
    /\ \A s \in Services : WF_pvars(Before(Run(s)))
    /\ WF_pvars(Before(Run("gateway")) \/ During(Run("gateway")))
    /\ \A c \in Clients :
          /\ WF_pvars(Ask(Retry(c)))
          /\ WF_pvars(Handle(GiveUp(c)))
          /\ SF_pvars(Handle(UsersKnown(c)))
          /\ SF_pvars(Handle(Allow(c) /\ Answered(c)))
          /\ SF_pvars(Handle(WalletLookup(c) /\ Answered(c)))
          /\ SF_pvars(Handle(WalletTx(c) /\ Answered(c)))
          /\ SF_pvars(Handle(Record(c) /\ Answered(c)))
=============================================================================
