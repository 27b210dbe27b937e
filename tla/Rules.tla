--------------------------------- MODULE Rules ---------------------------------
(***************************************************************************)
(* The two engines that run the owner's rules on incoming messages:        *)
(* notifications (bot/notification_engine.py) and automation               *)
(* (bot/automation_engine.py), with their commands and repositories.  A    *)
(* message passes the first engine, then the second; each reads its        *)
(* enabled rules in one query and carries out those that match, one        *)
(* awaited action after the other, while the owner changes the table.      *)
(*                                                                         *)
(* A rule's trigger is the kind of message it matches; its action is a     *)
(* message sent, a row written, or nothing (a kind no handler is for).     *)
(***************************************************************************)
EXTENDS Environment

Engine  == <<"notify", "auto">>
Engines == {"notify", "auto"}
Trigger == {"any", "word", "time"}   \* "time" matches no message
Act     == {"send", "row", "none"}

CONSTANTS RuleId   \* rules the owner may make

VARIABLES
    rules,      \* the two tables: id -> [on, trigger, act], ids in the order of names
    notifying,  \* toggles["notifications_enabled"]
    incoming,   \* the messages: their kind, the engine they are in, the rules left
    inbox,      \* messages saved by a rule's action
    \* -- history, read by properties only
    ran,        \* <<message, engine, rule>>
    offAt,      \* engine -> rule -> messages that had come when it last went off
    due         \* <<message, engine, rule>> that was read and matched

rulesVars == <<rules, notifying, incoming, inbox, ran, offAt, due>>

Shape == [on : BOOLEAN, trigger : Trigger, act : Act]

RulesInit ==
    /\ rules \in [Engines -> UNION {[S -> {[on |-> TRUE, trigger |-> "any", act |-> "send"],
                                            [on |-> TRUE, trigger |-> "word", act |-> "row"]}]
                                     : S \in SUBSET RuleId}]
    /\ notifying \in BOOLEAN
    /\ incoming = <<>> /\ inbox = {}
    /\ ran = {} /\ due = {}
    /\ offAt = [e \in Engines |-> [r \in RuleId |-> 0]]

-----------------------------------------------------------------------------
(* The commands.  Each change is one transaction.                          *)

Keep == UNCHANGED <<notifying, incoming, inbox, ran, due>>

CreateRule(e, r, shape) ==
    /\ r \notin DOMAIN rules[e] /\ shape.on
    /\ rules' = [rules EXCEPT ![e] = [x \in DOMAIN @ \cup {r} |-> IF x = r THEN shape ELSE @[x]]]
    /\ Ordered /\ Keep /\ UNCHANGED offAt

Goes(e, r) == offAt' = [offAt EXCEPT ![e][r] = IF rules[e][r].on THEN Len(incoming) ELSE @]

DeleteRule(e, r) ==
    /\ r \in DOMAIN rules[e]
    /\ rules' = [rules EXCEPT ![e] = [x \in DOMAIN @ \ {r} |-> @[x]]]
    /\ Goes(e, r)
    /\ Ordered /\ Keep

ToggleRule(e, r, on) ==
    /\ r \in DOMAIN rules[e]
    /\ rules' = [rules EXCEPT ![e][r].on = on]
    /\ IF on THEN UNCHANGED offAt ELSE Goes(e, r)
    /\ Ordered /\ Keep

SwitchNotifications(b) ==
    /\ notifying' = b
    /\ Ordered /\ UNCHANGED <<rules, incoming, inbox, ran, offAt, due>>

-----------------------------------------------------------------------------
(* A message.                                                              *)

Still == UNCHANGED <<rules, notifying, offAt>>

\* The first engine is passed over while its switch is off.
MessageComes(kind) ==
    /\ incoming' = Append(incoming, [kind |-> kind, in |-> IF notifying THEN 1 ELSE 2,
                                     at |-> "read", left |-> {}])
    /\ Ordered /\ Still /\ UNCHANGED <<inbox, ran, due>>

Inside(m) == Engine[incoming[m].in]
Leave(p) == [p EXCEPT !.in = @ + 1, !.at = IF p.in = 1 THEN "read" ELSE "done", !.left = {}]

EveryRule(e) == DOMAIN rules[e]  \* variant: disabled ones too

\* get_rules: the enabled rules.
Enabled(e) == {r \in DOMAIN rules[e] : rules[e][r].on}

Matches(rule, kind) == rule.trigger = "any" \/ (rule.trigger = "word" /\ kind = "word")

\* What is read is a copy: the table may change before its turn comes.
ReadRules(m) ==
    /\ incoming[m].at = "read"
    /\ LET e == Inside(m)
           mine == {r \in Enabled(e) : /\ Matches(rules[e][r], incoming[m].kind)
                                       /\ rules[e][r].act # "none"}
       IN  /\ incoming' = [incoming EXCEPT ![m] = IF mine = {} THEN Leave(@)
                ELSE [@ EXCEPT !.at = "run", !.left = {[id |-> r, rule |-> rules[e][r]] : r \in mine}]]
           /\ due' = due \cup {<<m, e, r>> : r \in mine}
    /\ Calm /\ Still /\ UNCHANGED <<inbox, ran>>

\* A query that raises is caught; the next engine has its turn.
ReadFails(m) ==
    /\ incoming[m].at = "read"
    /\ incoming' = [incoming EXCEPT ![m] = Leave(@)]
    /\ Fault /\ Still /\ UNCHANGED <<inbox, ran, due>>

\* The rule `c` has had its turn.
Without(p, c) == IF p.left = {c} THEN Leave(p) ELSE [p EXCEPT !.left = @ \ {c}]

\* The rules have their turn in the order they were read, that of the ids.
Turn(m, c) ==
    /\ incoming[m].at = "run"
    /\ c \in incoming[m].left /\ \A d \in incoming[m].left : c.id <= d.id
    /\ incoming' = [incoming EXCEPT ![m] = Without(@, c)]
    /\ ran' = ran \cup {<<m, Inside(m), c.id>>}

RunRule(m) ==
    /\ \E c \in incoming[m].left :
         /\ Turn(m, c)
         /\ inbox' = IF c.rule.act = "row" THEN inbox \cup {m} ELSE inbox
    /\ Calm /\ Still /\ UNCHANGED due

\* An action that raises is caught, and the rules after it have their turn.
RuleFails(m) ==
    /\ \E c \in incoming[m].left : Turn(m, c)
    /\ Fault /\ Still /\ UNCHANGED <<inbox, due>>

RulesCrash ==
    /\ Fault
    /\ incoming' = [m \in DOMAIN incoming |-> [incoming[m] EXCEPT !.in = 3, !.at = "lost", !.left = {}]]
    /\ Still /\ UNCHANGED <<inbox, ran, due>>

-----------------------------------------------------------------------------
\* A rule acts on a message only if it was enabled at some instant since that
\* message came: one that was switched off or deleted acts on none that comes
\* later, and on those under way only if they had read it
\* (automation_engine.py:126-156, notification_engine.py:110-124).  And whatever
\* raises, every rule a message has read gets its turn before the message is done.
RulesHaveTheirTurn ==
    /\ \A t \in ran : t[1] <= offAt[t[2]][t[3]] \/ (t[3] \in DOMAIN rules[t[2]] /\ rules[t[2]][t[3]].on)
    /\ \A t \in due : incoming[t[1]].at = "done" => t \in ran

RulesTypes ==
    /\ \A m \in DOMAIN incoming : /\ (incoming[m].at = "run") = (incoming[m].left # {})
                                  /\ incoming[m].in \in 1..3
    /\ ran \subseteq due /\ inbox \subseteq DOMAIN incoming
=============================================================================
