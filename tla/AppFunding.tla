----------------------------- MODULE AppFunding -----------------------------
(***************************************************************************)
(* The demo application calls the funding transport from two places, the   *)
(* buy and the launch, and each call asks for an account index that no     *)
(* position has used.  Indexes are abstracted: the account of a call is    *)
(* one that no recovery record and no other flow names.                    *)
(***************************************************************************)
EXTENDS FundingTransport

Known == {want[f] : f \in Flows} \cup
         {c.account : c \in {cursor, legacy} \cap Cursor}

\* allocateAccountIndex, then runtime.fund for that index.
FundFresh(f) == \E a \in Accounts \ Known : Call(f, a)

AppNext ==
  \/ \E f \in Flows : FundFresh(f)
  \/ \E f \in Flows : DropCorrupt(f)
  \/ \E f \in Flows : Run(f)
  \/ \E r \in Requests : Environment(r)

AppSpec ==
  /\ Init /\ legacy = None
  /\ [][AppNext]_vars
  /\ \A f \in Flows : WF_vars(FundFresh(f)) /\ WF_vars(Run(f))
  /\ \A f \in Flows : SF_vars(PollSuccess(f))

Polled(r) == \E f \in Flows : pc[f] = "polling" /\ req[f] = r

\* docs/private-pons-relay.md: a reload resumes status polling instead of
\* burning again.  A user who keeps funding gets every interrupted transfer
\* polled again, or its record closed.
ReloadResumes ==
  \A r \in Requests :
    Recorded(r) /\ ~Polled(r) ~> Polled(r) \/ ~Recorded(r)
=============================================================================
