----------------------------- MODULE ProfileClock -----------------------------
(***************************************************************************)
(* The clock in the profile name (bot/clock.py, bot/handlers/profile.py).  *)
(* The name on Telegram is the base name, a bar and the time; the worker   *)
(* reads the name back every minute, takes the time off it and writes it   *)
(* again, while commands, and the owner in another app, change it too.     *)
(*                                                                         *)
(* A name is a sequence of tokens: letters, spaces, the bar, and the signs *)
(* of the fifteen styles.  A digit is "d" if it is 0-9 and "D" if it is of *)
(* one of the other blocks; every face of the clock is "icon".  Style and  *)
(* switch are saved in Settings; a restart keeps them.  No backup, whose   *)
(* base name would become the name, is restored here.                      *)
(***************************************************************************)
EXTENDS Environment

CONSTANTS NewName,    \* names the owner can give
          FirstStyle, \* styles a behaviour can start with
          Longest40,  \* base[:40]
          ClockTask   \* commands under way at once

VARIABLES
    profile,   \* first_name on Telegram
    base,      \* clock_state["base_name"]: a set, empty when unknown
    style,     \* clock_state["style"]
    ticking,   \* clock_state["enabled"]
    updater,   \* clock_updater: at, name, key (of which only the minute, till the answer)
    lastSet,   \* its last_sent
    task,      \* commands: at, name
    \* -- history, read by properties only
    wish,      \* the name the owner gave last
    unread,    \* he gave it in another app, and the bot has not read it since
    crossed    \* a change of the name met another one, or failed

clockVars == <<profile, base, style, ticking, updater, lastSet, task, wish, unread, crossed>>

-----------------------------------------------------------------------------
(* The styles, and the pattern that finds their output at the end.         *)

Time(d, sep) == <<d, d, sep, d, d>>

Style == <<"default", "animated", "persian", "fullwidth", "monospace", "doublestruck",
           "circled", "brackets", "dotstyle", "minimal", "bold", "subscript", "square",
           "dash", "star">>

Rendered ==
    [default      |-> <<"icon", "space">> \o Time("d", ":"),
     animated     |-> <<"icon", "space">> \o Time("d", ":"),
     persian      |-> Time("D", ":"),
     fullwidth    |-> Time("D", "wide:"),
     monospace    |-> Time("D", ":"),
     doublestruck |-> Time("D", ":"),
     circled      |-> Time("D", ":"),
     brackets     |-> <<"<">> \o Time("d", ":") \o <<">">>,
     dotstyle     |-> <<"icon", "space">> \o Time("d", "dot"),
     minimal      |-> Time("d", ":"),
     bold         |-> Time("D", ":"),
     subscript    |-> Time("D", ":"),
     square       |-> <<"[">> \o Time("d", ":") \o <<"]">>,
     dash         |-> Time("d", "-"),
     star         |-> <<"star", "space">> \o Time("d", ":") \o <<"space", "star">>]

First40(b) == SubSeq(b, 1, IF Len(b) < Longest40 THEN Len(b) ELSE Longest40)

\* f"{base} | {clock_part}"
Shown(b, s) == First40(b) \o (<<"space", "|", "space">> \o Rendered[s])

From(q, i) == SubSeq(q, i, Len(q))
Letters(q) == {i \in 1..Len(q) : q[i] # "space"}
LeftTrim(q) == IF Letters(q) = {} THEN <<>>
               ELSE From(q, CHOOSE i \in Letters(q) : \A j \in Letters(q) : i <= j)
RightTrim(q) == IF Letters(q) = {} THEN <<>>
                ELSE SubSeq(q, 1, CHOOSE i \in Letters(q) : \A j \in Letters(q) : j <= i)
Inside(q) == SubSeq(q, 2, Len(q) - 1)

IsTime(q, digits, seps) ==
    Len(q) = 5 /\ {q[1], q[2], q[4], q[5]} \subseteq digits /\ q[3] \in seps

AnyTime(q) == IsTime(q, {"d", "D"}, {":", "wide:"})
Ascii(q, sep) == IsTime(q, {"d"}, {sep})

\* The alternatives of _CLOCK_SUFFIX_RE, without the bar.
IsClock(q) ==
    \/ AnyTime(q) \/ Ascii(q, "-")
    \/ /\ Len(q) > 5
       /\ \/ q[1] = "icon" /\ (AnyTime(LeftTrim(Tail(q))) \/ Ascii(LeftTrim(Tail(q)), "dot"))
          \/ q[1] = "<" /\ q[Len(q)] = ">" /\ Ascii(Inside(q), ":")
          \/ q[1] = "[" /\ q[Len(q)] = "]" /\ Ascii(Inside(q), ":")
          \/ q[1] = "star" /\ q[Len(q)] = "star" /\ Ascii(RightTrim(LeftTrim(Inside(q))), ":")

EndsInClock(q) ==
    \/ IsClock(q)
    \/ LET u == LeftTrim(q) IN u # <<>> /\ u[1] = "|" /\ IsClock(LeftTrim(Tail(u)))

CutBarKept(name) ==              \* variant: the bar before the time stays
    LET n == RightTrim(name)
        ends == {i \in 1..Len(n) : IsClock(From(n, i))}
    IN  IF ends = {} THEN n
        ELSE RightTrim(SubSeq(n, 1, (CHOOSE i \in ends : \A j \in ends : i <= j) - 1))

\* One substitution: the leftmost place from which the rest matches.
Cut(name) ==
    LET n == RightTrim(name)
        ends == {i \in 1..Len(n) : EndsInClock(From(n, i))}
    IN  IF ends = {} THEN n
        ELSE RightTrim(SubSeq(n, 1, (CHOOSE i \in ends : \A j \in ends : i <= j) - 1))

\* strip_clock_suffix: again until nothing changes.
Stripped(name) ==
    LET cut[k \in 0..Len(name)] == IF k = 0 THEN name ELSE Cut(cut[k - 1])
    IN  cut[Len(name)]

\* Nothing at the end of the name reads as a time.
Timeless(name) ==
    LET n == RightTrim(name) IN \A i \in 1..Len(n) : ~EndsInClock(From(n, i))

\* The names are ones the pattern takes nothing off, whole or cut to 40.
ClockAssumption ==
    /\ Longest40 \in Nat /\ FirstStyle \subseteq DOMAIN Rendered
    /\ \A n \in NewName : n \in Seq(STRING) /\ Timeless(n) /\ Timeless(First40(n))

-----------------------------------------------------------------------------
AtRest == [at |-> "idle", name |-> <<>>]
Resting == [at |-> "idle", name |-> <<>>, key |-> <<>>]

ClockInit ==
    /\ wish \in NewName
    /\ style \in FirstStyle
    /\ ticking \in BOOLEAN
    /\ profile = IF ticking THEN Shown(wish, style) ELSE wish
    /\ base = {}
    /\ updater = Resting /\ lastSet = {}
    /\ task = [t \in ClockTask |-> AtRest]
    /\ unread = FALSE /\ crossed = FALSE

Changing == updater.at # "idle" \/ \E t \in ClockTask : task[t].at \in {"ask", "asked", "update"}

\* The owner gives a name: it may meet a change that is under way.
Wishes(n, elsewhere) ==
    /\ wish' = n
    /\ unread' = elsewhere
    /\ crossed' = Changing

SameWish == UNCHANGED <<wish, unread>>
SameMode == UNCHANGED <<style, ticking>>

-----------------------------------------------------------------------------
(* clock_updater.                                                          *)

\* get_me reads the name on Telegram ...
ClockLook ==
    /\ updater.at = "idle" /\ ticking
    /\ updater' = [at |-> "asked", name |-> profile, key |-> <<now>>]
    /\ crossed' = (crossed \/ \E t \in ClockTask : task[t].at # "idle")
    /\ Calm /\ SameMode /\ SameWish /\ UNCHANGED <<profile, base, lastSet, task>>

\* What tells two updates apart: the style, the base name and the minute.
SentKey(name) == <<style, First40(name)>> \o updater.key

\* ... and its answer becomes the base name; the same name is not sent twice.
ClockAnswer ==
    /\ updater.at = "asked"
    /\ base' = {Stripped(updater.name)}
    /\ LET name == Stripped(updater.name)
       IN  updater' = IF lastSet = {SentKey(name)} THEN Resting
                      ELSE [at |-> "update", name |-> Shown(name, style), key |-> SentKey(name)]
    /\ unread' = FALSE
    /\ Calm /\ SameMode /\ UNCHANGED <<profile, lastSet, task, wish, crossed>>

ClockLands ==
    /\ updater.at = "update"
    /\ profile' = updater.name
    /\ lastSet' = {updater.key}
    /\ updater' = Resting
    /\ Calm /\ SameMode /\ SameWish /\ UNCHANGED <<base, task, crossed>>

\* A flood wait, or another error, of either call.
ClockFails ==
    /\ updater.at # "idle"
    /\ updater' = Resting
    /\ Fault /\ SameMode /\ SameWish /\ UNCHANGED <<profile, base, lastSet, task, crossed>>

-----------------------------------------------------------------------------
(* Commands.                                                               *)

\* apply_clock_now, from a base name b; the name is read first if there is none.
Applied(b) ==
    IF b = {} THEN [at |-> "ask", name |-> <<>>]
    ELSE [at |-> "update", name |-> Shown(CHOOSE x \in b : TRUE, style')]

SetName(t, n) ==
    /\ task[t].at = "idle"
    /\ base' = {n}
    /\ UNCHANGED <<style, ticking>>
    /\ task' = [task EXCEPT ![t] = IF ticking THEN Applied({n}) ELSE [at |-> "update", name |-> n]]
    /\ Wishes(n, FALSE)
    /\ Ordered /\ UNCHANGED <<profile, updater, lastSet>>

\* The style is saved, shown, and then applied.
ClockStyle(t, s) ==
    /\ task[t].at = "idle"
    /\ style' = s
    /\ task' = [task EXCEPT ![t].at = "style"]
    /\ Ordered /\ SameWish /\ UNCHANGED <<profile, base, ticking, updater, lastSet, crossed>>

ApplyStyle(t) ==
    /\ task[t].at = "style" /\ SameMode
    /\ task' = [task EXCEPT ![t] = IF ticking THEN Applied(base) ELSE AtRest]
    /\ crossed' = (crossed \/ unread \/ (ticking /\ Changing))
    /\ Calm /\ SameWish /\ UNCHANGED <<profile, base, updater, lastSet>>

\* The next style of the list.
ClockStyleNext(t) ==
    \E i \in 1..Len(Style) : style = Style[i] /\ ClockStyle(t, Style[(i % Len(Style)) + 1])

TaskAsks(t) ==
    /\ task[t].at = "ask"
    /\ task' = [task EXCEPT ![t] = [at |-> "asked", name |-> profile]]
    /\ Calm /\ SameMode /\ SameWish /\ UNCHANGED <<profile, base, updater, lastSet, crossed>>

TaskAnswer(t) ==
    /\ task[t].at = "asked" /\ SameMode
    /\ base' = {Stripped(task[t].name)}
    /\ task' = [task EXCEPT ![t] = Applied(base')]
    /\ Calm /\ SameWish /\ UNCHANGED <<profile, updater, lastSet, crossed>>

TaskLands(t) ==
    /\ task[t].at = "update"
    /\ profile' = task[t].name
    /\ task' = [task EXCEPT ![t] = AtRest]
    /\ Calm /\ SameMode /\ SameWish /\ UNCHANGED <<base, updater, lastSet, crossed>>

\* An error is counted and swallowed, or ends the command.
TaskFails(t) ==
    /\ task[t].at \in {"ask", "asked", "update"}
    /\ task' = [task EXCEPT ![t] = AtRest]
    /\ crossed' = TRUE
    /\ Fault /\ SameMode /\ SameWish /\ UNCHANGED <<profile, base, updater, lastSet>>

ClockSwitch(b) ==
    /\ ticking' = b
    /\ Ordered /\ SameWish
    /\ UNCHANGED <<profile, base, style, updater, lastSet, task, crossed>>

\* The owner changes his name in another app.
AppRename(n) ==
    /\ profile' = n
    /\ Wishes(n, TRUE)
    /\ Ordered /\ SameMode /\ UNCHANGED <<base, updater, lastSet, task>>

-----------------------------------------------------------------------------
\* The process dies; the base name is read from Telegram again.
ClockCrash ==
    /\ Fault
    /\ base' = {} /\ lastSet' = {}
    /\ updater' = Resting
    /\ crossed' = (crossed \/ \E t \in ClockTask : task[t].at # "idle")
    /\ task' = [t \in ClockTask |-> AtRest]
    /\ SameMode /\ SameWish /\ UNCHANGED profile

ClockTick == Advance /\ UNCHANGED clockVars

-----------------------------------------------------------------------------
Kept(name) == RightTrim(First40(name))

\* The name on Telegram is the one the owner gave last, in any style, through
\* every update, style, switch and restart, up to its 40 first characters and
\* the spaces at their end; unless that change met another one or failed, or a
\* style was applied before the bot had read a name given in another app
\* (clock.py:210-220, 240-246).
NameKept ==
    ~crossed /\ (\A t \in ClockTask : task[t].at # "update") =>
      Kept(Stripped(profile)) = Kept(wish)

ClockTypes ==
    /\ Cardinality(base) <= 1 /\ Cardinality(lastSet) <= 1
    /\ style \in DOMAIN Rendered /\ {ticking, unread, crossed} \subseteq BOOLEAN
    /\ updater.at \in {"idle", "asked", "update"}
    /\ \A t \in ClockTask : task[t].at \in {"idle", "style", "ask", "asked", "update"}
=============================================================================
