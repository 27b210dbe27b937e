--------------------------------- MODULE Stats ---------------------------------
(***************************************************************************)
(* The statistics (bot/storage/stats_store.py, bot/repositories/           *)
(* stats_repo.py, bot/handlers/stats.py): counters in memory, and saves    *)
(* that take the totals at once and then walk the live dictionaries, of    *)
(* the commands and of the chats, one awaited upsert per entry, while      *)
(* messages go on being counted.                                           *)
(*                                                                         *)
(* messages_total stands for all totals, and the rows of the commands are  *)
(* left out: of their walk there is what it lets happen before the chats'. *)
(***************************************************************************)
EXTENDS Environment

CONSTANTS StatChat,  \* chats messages come from
          Saver      \* tasks that save or reset: stats_saver, autopost_worker, commands

VARIABLES
    total,     \* STATS["messages_total"]
    perChat,   \* STATS["per_chat"]: chat -> messages
    counting,  \* toggles["stats_enabled"]
    stored,    \* the rows: total, and those of the chats
    saving,    \* the tasks: at, seen, total, flushed, left, keys, live, view, item, wrote
    starting,  \* init_stats: at, total
    \* -- history, read by properties only
    met        \* a save came between the steps of a reset, of the load, or of a
               \* save that took no lock on the totals

statsVars == <<total, perChat, counting, stored, saving, starting, met>>

NoChats == [c \in {} |-> 0]
Unseen  == 0 - 1

AtEase == [at |-> "idle", seen |-> Unseen, total |-> 0, flushed |-> FALSE, left |-> {},
           keys |-> {}, live |-> TRUE, view |-> NoChats, item |-> {}, wrote |-> NoChats]

StatsInit ==
    /\ stored \in [total : {0, 1}, chats : {NoChats} \cup UNION {[{c} -> {1}] : c \in StatChat}]
    /\ stored.total = Cardinality(DOMAIN stored.chats)
    /\ total = 0 /\ perChat = NoChats
    /\ counting = TRUE
    /\ saving = [s \in Saver |-> AtEase]
    /\ starting = [at |-> "start", total |-> 0]
    /\ met = FALSE

-----------------------------------------------------------------------------
(* Counting.                                                               *)

Count(d, c) == IF c \in DOMAIN d THEN d[c] ELSE 0

\* stats_collector: total and chat in one step.
RecordMessage(c) ==
    /\ counting
    /\ total' = total + 1
    /\ perChat' = [x \in DOMAIN perChat \cup {c} |-> Count(perChat, x) + (IF x = c THEN 1 ELSE 0)]
    /\ Ordered /\ UNCHANGED <<counting, stored, saving, starting, met>>

StatsSwitch(b) ==
    /\ counting' = b
    /\ Ordered /\ UNCHANGED <<total, perChat, stored, saving, starting, met>>

-----------------------------------------------------------------------------
(* save_snapshot: one transaction.                                         *)

InMemory == UNCHANGED <<total, perChat, counting, starting>>

SaveBegin(s) ==
    /\ saving[s].at = "idle"
    /\ saving' = [saving EXCEPT ![s].at = "load", ![s].seen = stored.total]
    /\ Calm /\ InMemory /\ UNCHANGED <<stored, met>>

\* The walk: the dictionary it is over, and its next entry; the order of the
\* entries is any.
View(t) == IF t.live THEN perChat ELSE t.view
WalksOn(t, left) ==
    IF left = {} THEN {[t EXCEPT !.at = "commit", !.left = {}, !.item = {}]}
    ELSE {[t EXCEPT !.at = "row", !.left = left \ {c}, !.item = {<<c, View(t)[c]>>}] : c \in left}

\* The walk of the chats begins, over those there are now.
ChatsBegin(t) == WalksOn([t EXCEPT !.keys = DOMAIN perChat], DOMAIN perChat)

\* The totals are taken; commands, if any were counted, are walked first.
SaveTotals(s) ==
    /\ saving[s].at = "load"
    /\ LET t == [saving[s] EXCEPT !.total = total]
       IN  \E u \in {[t EXCEPT !.at = "names"]} \cup ChatsBegin(t) : saving' = [saving EXCEPT ![s] = u]
    /\ Calm /\ InMemory /\ UNCHANGED <<stored, met>>

\* The first statement flushes the row of the totals if they changed; that and
\* every row written are locked until the transaction ends.
Changed(t) == t.total # t.seen
HoldsTotals(s) == saving[s].flushed /\ Changed(saving[s])
MayFlush(s) ==
    Changed(saving[s]) /\ ~saving[s].flushed => \A p \in Saver \ {s} : ~HoldsTotals(p)
MayWrite(s, c) == \A p \in Saver \ {s} : c \notin DOMAIN saving[p].wrote

\* The commands are upserted, and the walk of the chats begins, unless theirs got
\* a new command meanwhile.  What others do while the totals are locked for it they
\* can do as well before the first command.
SaveChats(s) ==
    /\ saving[s].at = "names"
    /\ MayFlush(s)
    /\ \E u \in ChatsBegin([saving[s] EXCEPT !.flushed = TRUE]) \cup {AtEase} :
         saving' = [saving EXCEPT ![s] = u]
    /\ Calm /\ InMemory /\ UNCHANGED <<stored, met>>

OneRow(c, n) == [x \in {c} |-> n]
\* Rows f are inserted among the rows g, or take the place of those with their key.
Upserted(f, g) == [x \in DOMAIN f \cup DOMAIN g |-> IF x \in DOMAIN f THEN f[x] ELSE g[x]]

\* One entry is upserted, and the next one is read; a dictionary that got a new
\* key since the walk began raises, and everything is rolled back.
SaveRow(s) ==
    /\ saving[s].at = "row"
    /\ \E e \in saving[s].item :
         /\ MayFlush(s) /\ MayWrite(s, e[1])
         /\ LET t == [saving[s] EXCEPT !.flushed = TRUE, !.wrote = Upserted(OneRow(e[1], e[2]), @)]
            IN  \E u \in IF DOMAIN View(t) = t.keys THEN WalksOn(t, t.left) ELSE {AtEase} :
                  saving' = [saving EXCEPT ![s] = u]
    /\ Calm /\ InMemory /\ UNCHANGED <<stored, met>>

\* A save whose totals have not changed does not lock them: another may pass it.
Meets(s) == \/ starting.at # "done"
            \/ \E p \in Saver \ {s} :
                 \/ saving[p].at = "reset"
                 \/ saving[p].at \in {"names", "row", "commit"} /\ ~Changed(saving[p])

SaveCommit(s) ==
    /\ saving[s].at = "commit"
    /\ MayFlush(s)
    /\ stored' = [total |-> IF Changed(saving[s]) THEN saving[s].total ELSE stored.total,
                  chats |-> Upserted(saving[s].wrote, stored.chats)]
    /\ saving' = [saving EXCEPT ![s] = AtEase]
    /\ met' = (met \/ Meets(s))
    /\ Calm /\ InMemory

\* Every error of a save is caught.
SaveRaises(s) ==
    /\ saving[s].at # "idle"
    /\ saving' = [saving EXCEPT ![s] = AtEase]
    /\ Fault /\ InMemory /\ UNCHANGED <<stored, met>>

-----------------------------------------------------------------------------
(* reset_stats.                                                            *)

ResetMemoryHalf(s) ==            \* variant: the totals are forgotten
    /\ saving[s].at = "idle"
    /\ perChat' = NoChats
    /\ saving' = [p \in Saver |->
         IF p = s THEN [AtEase EXCEPT !.at = "reset", !.seen = stored.total]
         ELSE IF saving[p].at \in {"row", "commit"} /\ saving[p].live
         THEN [saving[p] EXCEPT !.live = FALSE, !.view = perChat]
         ELSE saving[p]]
    /\ met' = (met \/ starting.at # "done" \/ \E p \in Saver \ {s} : saving[p].at # "idle")
    /\ Ordered /\ UNCHANGED <<total, counting, stored, starting>>

\* Memory gets new dictionaries; a walk under way keeps the old one.
ResetMemory(s) ==
    /\ saving[s].at = "idle"
    /\ total' = 0 /\ perChat' = NoChats
    /\ saving' = [p \in Saver |->
         IF p = s THEN [AtEase EXCEPT !.at = "reset", !.seen = stored.total]
         ELSE IF saving[p].at \in {"row", "commit"} /\ saving[p].live
         THEN [saving[p] EXCEPT !.live = FALSE, !.view = perChat]
         ELSE saving[p]]
    /\ met' = (met \/ starting.at # "done" \/ \E p \in Saver \ {s} : saving[p].at # "idle")
    /\ Ordered /\ UNCHANGED <<counting, stored, starting>>

\* The totals are written if they were not zero; the rows there are go.
ResetCommit(s) ==
    /\ saving[s].at = "reset"
    /\ \A p \in Saver \ {s} : /\ saving[s].seen # 0 => ~HoldsTotals(p)
                              /\ DOMAIN saving[p].wrote \cap DOMAIN stored.chats = {}
    /\ stored' = [total |-> IF saving[s].seen # 0 THEN 0 ELSE stored.total, chats |-> NoChats]
    /\ saving' = [saving EXCEPT ![s] = AtEase]
    /\ Calm /\ InMemory /\ UNCHANGED met

-----------------------------------------------------------------------------
(* The start of a process.                                                 *)

StatsLoadTotals ==
    /\ starting.at = "start"
    /\ starting' = [at |-> "totals", total |-> stored.total]
    /\ Calm /\ UNCHANGED <<total, perChat, counting, stored, saving, met>>

\* The rows are read, and what was counted meanwhile is replaced.
StatsLoad ==
    /\ starting.at = "totals"
    /\ total' = starting.total /\ perChat' = stored.chats
    /\ starting' = [at |-> "done", total |-> 0]
    /\ saving' = [p \in Saver |->
         IF saving[p].at \in {"row", "commit"} /\ saving[p].live
         THEN [saving[p] EXCEPT !.live = FALSE, !.view = perChat] ELSE saving[p]]
    /\ met' = (met \/ \E p \in Saver : saving[p].at # "idle")
    /\ Calm /\ UNCHANGED <<counting, stored>>

StatsCrash ==
    /\ Fault
    /\ total' = 0 /\ perChat' = NoChats
    /\ saving' = [s \in Saver |-> AtEase]
    /\ starting' = [at |-> "start", total |-> 0]
    /\ UNCHANGED <<counting, stored, met>>

-----------------------------------------------------------------------------
SumOf(d) == Cardinality(UNION {{c} \X (1..d[c]) : c \in DOMAIN d})

\* The totals of memory are never more than its entries add up to, and neither
\* are those that were saved: a save that is not rolled back has, for every
\* message in its total, an entry that counts it, though the entries may be of
\* later instants than the totals (stats_repo.py:46-79).  Not said of what is
\* saved after a save met a reset, the load, or a save that leaves the totals as
\* they are and so takes no lock on them: each is one transaction
\* (stats_repo.py:7-10, stats_store.py:38), but the values are not all of one.
CountsCovered ==
    ~met => total <= SumOf(perChat) /\ stored.total <= SumOf(stored.chats)

StatsTypes ==
    /\ total \in Nat /\ stored.total \in Nat
    /\ DOMAIN perChat \subseteq StatChat /\ DOMAIN stored.chats \subseteq StatChat
    /\ \A s \in Saver : /\ saving[s].at \in {"idle", "load", "names", "row", "commit", "reset"}
                        /\ (saving[s].at = "row") = (saving[s].item # {})
                        /\ saving[s].left \subseteq StatChat
=============================================================================
