------------------------------- MODULE MCParts -------------------------------
(***************************************************************************)
(* Small components for TLC.  They do not touch each other, so each        *)
(* behaviour is one of one component, chosen at the start, and their       *)
(* states add up instead of multiplying: the windows of the assistant and  *)
(* the proposals that wait for the owner's word.                           *)
(***************************************************************************)
EXTENDS AssistantWindows, Proposals

CONSTANT Parts  \* the components of a run

VARIABLE part

\* Two sentences in one chat, whose proposals live for one instant.
Sentences == {[id |-> i, place |-> "chat"] : i \in 1..2}
OneInstant == [x \in {"chat"} |-> 1]

PartsInit ==
    /\ part \in Parts
    /\ Init /\ ProposalsInit
    /\ part # "windows" => table = {}

InWindows(A)   == part = "windows" /\ A /\ UNCHANGED <<part, proposalVars>>
InProposals(A) == part = "proposals" /\ A /\ UNCHANGED <<part, vars>>

WindowsTurn ==
    \/ InWindows(LoadRead) \/ InWindows(Load) \/ InWindows(Crash)
    \/ \E o \in Op, w \in Window : InWindows(AskAdd(o, w)) \/ InWindows(AskRemove(o, w))
    \/ \E o \in Op :
         \/ InWindows(AskClear(o)) \/ InWindows(Commit(o)) \/ InWindows(List(o))
         \/ InWindows(Assign(o)) \/ InWindows(Fail(o))

RouterTurn ==
    \/ \E p \in Proposal :
         \/ InProposals(AskAI(p)) \/ InProposals(Refuse(p)) \/ InProposals(Propose(p))
         \/ InProposals(Show(p)) \/ InProposals(ShowFails(p))
    \/ \E x \in Place : InProposals(Cancel(x)) \/ InProposals(Expire(x))
    \/ \E c \in Confirmation :
         \/ \E x \in Place : InProposals(Confirm(c, x))
         \/ InProposals(Execute(c)) \/ InProposals(Return(c)) \/ InProposals(Raise(c))
    \/ InProposals(Tick) \/ InProposals(ProposalsCrash)

PartsNext == WindowsTurn \/ RouterTurn

PartsSpec == PartsInit /\ [][PartsNext]_<<part, vars, proposalVars>>

ASSUME PartsAssumption == ProposalsAssumption

-----------------------------------------------------------------------------
\* Every variable of the component that runs keeps its kind of value.
TypesOK == (part = "windows" => TypeOK) /\ (part = "proposals" => ProposalsTypeOK)
=============================================================================
