------------------------------ MODULE Proposals ------------------------------
(***************************************************************************)
(* Proposals that wait for the owner's word.  Two commands share this      *)
(* protocol: the command router turns a sentence into an action and runs   *)
(* it on `confirm` (bot/handlers/command_router.py), the smart reply       *)
(* drafts an answer and posts it on `send` (bot/handlers/smart_reply.py).  *)
(* Each keeps one proposal per chat in memory, for a limited time, and     *)
(* takes it out only after it has been carried out, that is after awaits.  *)
(***************************************************************************)
EXTENDS Naturals

CONSTANTS Place,         \* a chat of one of the two commands
          Routed,        \* the places that are the router's
          Proposal,      \* records [id, place]
          Confirmation,  \* confirm commands that can be under way together
          Life,          \* instants a proposal of each place lives
          MaxMishaps     \* bound: calls that raise, and crashes

\* What the constants are; a hypothesis of the theorems in PartsProofs.
ProposalsAssumption ==
    /\ Proposal \subseteq [id : Nat \ {0}, place : Place]
    /\ Life \in [Place -> Nat]
    /\ MaxMishaps \in Nat

VARIABLES
    pending,     \* PENDING and _pending_replies
    age,         \* instants since the proposal was put there
    stage,       \* how far the command that makes each proposal has come
    confirming,  \* the proposal each confirm command carries out
    effect,      \* whether it has taken effect
    mishaps,
    \* -- history, read by properties only
    executed,    \* how often each proposal took effect
    overlapped,  \* proposals confirmed again while being carried out
    failed,      \* proposals whose execution raised
    settled,     \* proposals whose confirmation came to its end
    withdrawn,   \* proposals cancelled, expired, replaced or lost in a crash
    crossed      \* proposals made while another of the same place was running

history == <<executed, overlapped, failed, settled, withdrawn, crossed>>
proposalVars == <<pending, age, stage, confirming, effect, mishaps, history>>

Nothing == [id |-> 0, place |-> "nowhere"]

Mishap == mishaps < MaxMishaps /\ mishaps' = mishaps + 1

ProposalsInit ==
    /\ pending = [x \in Place |-> Nothing]
    /\ age = [x \in Place |-> 0]
    /\ stage = [p \in Proposal |-> "new"]
    /\ confirming = [c \in Confirmation |-> Nothing]
    /\ effect = [c \in Confirmation |-> FALSE]
    /\ mishaps = 0
    /\ executed = [p \in Proposal |-> 0]
    /\ overlapped = {} /\ failed = {} /\ settled = {}
    /\ withdrawn = {} /\ crossed = {}

\* The proposal of a place goes, whichever it is: dict.pop(chat, None).
PoppedNever(x) == pending        \* variant: it is left in place
Popped(x) == [pending EXCEPT ![x] = Nothing]

Waiting(x) == pending[x] # Nothing
Running(p) == \E c \in Confirmation : confirming[c] = p
Occupied(x) == \E c \in Confirmation : confirming[c] # Nothing /\ confirming[c].place = x

Expired(x) == age[x] > Life[x]

-----------------------------------------------------------------------------
(* Making a proposal.                                                      *)

\* The command, down to the await of the AI.
AskAI(p) ==
    /\ stage[p] = "new"
    /\ stage' = [stage EXCEPT ![p] = "asking"]
    /\ UNCHANGED <<pending, age, confirming, effect, mishaps, history>>

\* The AI is off, fails, or says nothing an action can be built from.
Refuse(p) ==
    /\ stage[p] = "asking"
    /\ stage' = [stage EXCEPT ![p] = "refused"]
    /\ UNCHANGED <<pending, age, confirming, effect, mishaps, history>>

\* The proposal takes its place, whatever waits there, and only then is its
\* preview written into the chat.
Propose(p) ==
    /\ stage[p] = "asking"
    /\ stage' = [stage EXCEPT ![p] = "showing"]
    /\ pending' = [pending EXCEPT ![p.place] = p]
    /\ age' = [age EXCEPT ![p.place] = 0]
    /\ withdrawn' = IF Waiting(p.place) THEN withdrawn \cup {pending[p.place]} ELSE withdrawn
    /\ crossed' = IF Occupied(p.place) THEN crossed \cup {p} ELSE crossed
    /\ UNCHANGED <<confirming, effect, mishaps, executed, overlapped, failed, settled>>

ShowThenPut(p) ==                \* variant: put in place once it is shown
    /\ stage[p] = "showing"
    /\ stage' = [stage EXCEPT ![p] = "shown"]
    /\ pending' = [pending EXCEPT ![p.place] = p]
    /\ UNCHANGED <<age, confirming, effect, mishaps, executed, overlapped, failed,
                   settled, withdrawn, crossed>>

Show(p) ==
    /\ stage[p] = "showing"
    /\ stage' = [stage EXCEPT ![p] = "shown"]
    /\ UNCHANGED <<pending, age, confirming, effect, mishaps, executed, overlapped,
                   failed, settled, withdrawn, crossed>>

\* event.edit() raises: the proposal waits all the same.
ShowFails(p) ==
    /\ stage[p] = "showing"
    /\ Mishap
    /\ stage' = [stage EXCEPT ![p] = "hidden"]
    /\ UNCHANGED <<pending, age, confirming, effect, history>>

-----------------------------------------------------------------------------
(* The owner's word.                                                       *)

\* `cancel`, which only the router has.
Cancel(x) ==
    /\ x \in Routed
    /\ Waiting(x)
    /\ pending' = [pending EXCEPT ![x] = Nothing]
    /\ withdrawn' = withdrawn \cup {pending[x]}
    /\ UNCHANGED <<age, stage, confirming, effect, mishaps, executed, overlapped,
                   failed, settled, crossed>>

\* A confirmation that comes too late takes the proposal out.
Expire(x) ==
    /\ Waiting(x)
    /\ Expired(x)
    /\ pending' = [pending EXCEPT ![x] = Nothing]
    /\ withdrawn' = withdrawn \cup {pending[x]}
    /\ UNCHANGED <<age, stage, confirming, effect, mishaps, executed, overlapped,
                   failed, settled, crossed>>

\* `confirm` or `send` down to its first await: it holds the proposal it found.
Confirm(c, x) ==
    /\ confirming[c] = Nothing
    /\ Waiting(x)
    /\ ~Expired(x)
    /\ confirming' = [confirming EXCEPT ![c] = pending[x]]
    /\ effect' = [effect EXCEPT ![c] = FALSE]
    /\ overlapped' = IF Running(pending[x]) THEN overlapped \cup {pending[x]} ELSE overlapped
    /\ UNCHANGED <<pending, age, stage, mishaps, executed, failed, settled,
                   withdrawn, crossed>>

\* What was proposed takes effect: a row, a profile, a message, a switch.
Execute(c) ==
    /\ confirming[c] # Nothing
    /\ ~effect[c]
    /\ effect' = [effect EXCEPT ![c] = TRUE]
    /\ executed' = [executed EXCEPT ![confirming[c]] = @ + 1]
    /\ UNCHANGED <<pending, age, stage, confirming, mishaps, overlapped, failed,
                   settled, withdrawn, crossed>>

\* The execution returns, with or without effect (an unknown note, a failed
\* translation), and what waits in the place is taken out.
Return(c) ==
    /\ confirming[c] # Nothing
    /\ pending' = Popped(confirming[c].place)
    /\ settled' = settled \cup {confirming[c]}
    /\ confirming' = [confirming EXCEPT ![c] = Nothing]
    /\ UNCHANGED <<age, stage, effect, mishaps, executed, overlapped, failed,
                   withdrawn, crossed>>

RaiseForgets(c) ==               \* variant: taken out in a `finally`
    /\ confirming[c] # Nothing
    /\ Mishap
    /\ pending' = [pending EXCEPT ![confirming[c].place] = Nothing]
    /\ failed' = failed \cup {confirming[c]}
    /\ confirming' = [confirming EXCEPT ![c] = Nothing]
    /\ UNCHANGED <<age, stage, effect, executed, overlapped, settled,
                   withdrawn, crossed>>

\* It raises, before or after its effect: the proposal waits for another try.
Raise(c) ==
    /\ confirming[c] # Nothing
    /\ Mishap
    /\ failed' = failed \cup {confirming[c]}
    /\ confirming' = [confirming EXCEPT ![c] = Nothing]
    /\ UNCHANGED <<pending, age, stage, effect, executed, overlapped, settled,
                   withdrawn, crossed>>

-----------------------------------------------------------------------------
Tick ==
    /\ age' = [x \in Place |-> IF age[x] <= Life[x] THEN age[x] + 1 ELSE age[x]]
    /\ UNCHANGED <<pending, stage, confirming, effect, mishaps, history>>

\* Both tables live in memory only.
ProposalsCrash ==
    /\ Mishap
    /\ pending' = [x \in Place |-> Nothing]
    /\ stage' = [p \in Proposal |->
                   CASE stage[p] = "asking" -> "refused"
                     [] stage[p] = "showing" -> "hidden"
                     [] OTHER -> stage[p]]
    /\ confirming' = [c \in Confirmation |-> Nothing]
    /\ withdrawn' = withdrawn \cup {pending[x] : x \in {y \in Place : Waiting(y)}}
    /\ UNCHANGED <<age, effect, executed, overlapped, failed, settled, crossed>>

ProposalsNext ==
    \/ \E p \in Proposal : AskAI(p) \/ Refuse(p) \/ Propose(p) \/ Show(p) \/ ShowFails(p)
    \/ \E x \in Place : Cancel(x) \/ Expire(x)
    \/ \E c \in Confirmation, x \in Place : Confirm(c, x)
    \/ \E c \in Confirmation : Execute(c) \/ Return(c) \/ Raise(c)
    \/ Tick \/ ProposalsCrash

ProposalsSpec == ProposalsInit /\ [][ProposalsNext]_proposalVars

-----------------------------------------------------------------------------
(* Properties.                                                             *)

\* Every variable keeps its kind of value, and a proposal waits only in the
\* place it was made for.
ProposalsTypeOK ==
    /\ pending \in [Place -> Proposal \cup {Nothing}]
    /\ \A x \in Place : Waiting(x) => pending[x].place = x
    /\ age \in [Place -> Nat]
    /\ stage \in [Proposal -> {"new", "asking", "refused", "showing", "shown", "hidden"}]
    /\ confirming \in [Confirmation -> Proposal \cup {Nothing}]
    /\ effect \in [Confirmation -> BOOLEAN]
    /\ mishaps \in 0..MaxMishaps
    /\ executed \in [Proposal -> Nat]
    /\ \A s \in {overlapped, failed, settled, withdrawn, crossed} : s \subseteq Proposal

\* A proposal takes effect more than once only if the owner confirmed it again
\* while it was being carried out, or its execution raised and it was tried
\* again: neither newer proposals, cancels nor expiry can repeat it.
OnceUnlessOverlapped ==
    \A p \in Proposal \ (overlapped \cup failed) : executed[p] <= 1

\* A proposal that was cancelled, expired, was replaced or died with the
\* process is never carried out by a later confirmation.
WithdrawnStaysOut ==
    [][\A c \in Confirmation :
          confirming'[c] \in withdrawn => confirming'[c] = confirming[c]]_proposalVars

\* A proposal put before the owner still waits, or was carried out, or was
\* withdrawn; only one made while an older one of the chat was being carried
\* out can vanish unnoticed, taken out in its stead.
NoProposalVanishes ==
    \A p \in Proposal : stage[p] \in {"showing", "shown", "hidden"} =>
        \/ pending[p.place] = p
        \/ p \in settled \cup withdrawn \cup crossed
=============================================================================
