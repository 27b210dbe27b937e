------------------------------- MODULE GroupGuard ------------------------------
(***************************************************************************)
(* The guard of one group (bot/handlers/groupguard.py, with the warnings   *)
(* of bot/repositories/warn_repo.py).  A message passes the link, image,   *)
(* spam and word watchers in this order, in a task of its own; each asks   *)
(* Telegram, or a cache, whether the sender is an admin, and what happens  *)
(* while it waits is other messages, promotions and the owner's commands.  *)
(*                                                                         *)
(* What a text is, is its kind.  The group's switches are kept as memory   *)
(* has them (their rows are in Settings); the word filters are an external *)
(* table, for the module that keeps them is not in the repository.         *)
(***************************************************************************)
EXTENDS Environment, FiniteSetsExt

CONSTANTS Member,       \* members of the group, the owner apart
          CacheTTL,     \* _ADMIN_CACHE_TTL
          SpamWindow,   \* GROUP_SPAM_WINDOW_SECONDS
          SpamMax,      \* GROUP_SPAM_MAX_MESSAGES
          SpamRepeats,  \* GROUP_SPAM_DUPLICATE_THRESHOLD
          SpamCooldown, \* GROUP_SPAM_WARN_COOLDOWN_SECONDS
          SpamDeque     \* the most entries of a deque, 50

GuardAssumption ==
    /\ EnvironmentAssumption
    /\ CacheTTL \in Nat \ {0}
    /\ SpamWindow \in Nat /\ SpamMax \in Nat /\ SpamRepeats \in Nat \ {0}
    /\ SpamDeque \in Nat \ {0}

Worded == {"talk", "link", "bad"}
Text   == Worded \cup {"photo", "nude"}    \* a photo has no text
Filter == {"link", "porn", "spam"}
Stages == <<"link", "porn", "spam", "word">>

VARIABLES
    filtering,   \* the filters that are on
    greeting,    \* is_welcome_enabled
    admins,      \* Telegram: the members who are admins
    cache,       \* _admin_cache: member -> {} or {<<is admin, since when>>}
    posts,       \* the messages, and where their tasks are
    tracker,     \* _spam_tracker: member -> the <<time, message, text>> in its deque
    warnedAt,    \* _spam_last_warned
    warnRow,     \* group_user_warnings: member -> {} or {count}
    tagging,     \* tag-all: members still to tag, or -1
    joined,      \* members a welcome is being prepared for
    \* -- history, read by properties only
    plainAt,     \* member -> when last no admin
    heard,       \* messages the spam watcher counted: <<message, time>>
    doomed       \* messages a watcher called delete for

guardVars == <<filtering, greeting, admins, cache, posts, tracker, warnedAt, warnRow,
               tagging, joined, plainAt, heard, doomed>>

History == <<plainAt, heard, doomed>>

GuardInit ==
    /\ filtering \in SUBSET Filter
    /\ greeting \in BOOLEAN
    /\ admins \in SUBSET Member
    /\ cache = [m \in Member |-> {}]
    /\ posts = <<>>
    /\ tracker = [m \in Member |-> {}]
    /\ warnedAt = [m \in Member |-> 0 - SpamCooldown]
    /\ warnRow = [m \in Member |-> {}]
    /\ tagging = 0 - 1 /\ joined = {}
    /\ plainAt = [m \in Member |-> IF m \in admins THEN 0 - CacheTTL ELSE 0]
    /\ heard = {} /\ doomed = {}

-----------------------------------------------------------------------------
(* A message on its way through the watchers.                              *)

\* What each watcher looks at before it asks about the sender.
Wants(p, s) == CASE s = "link" -> "link" \in filtering /\ p.text = "link"
                 [] s = "porn" -> "porn" \in filtering /\ p.text \in {"photo", "nude"}
                 [] s = "spam" -> "spam" \in filtering
                 [] s = "word" -> TRUE

\* _is_admin_or_creator: what the cache says, while it is fresh.
Fresh(m) == \E e \in cache[m] : now - e[2] < CacheTTL
KnownAdmin(m) == \E e \in cache[m] : now - e[2] < CacheTTL /\ e[1]

\* The next watcher that has to do with the message asks, or acts at once.
Onward(p, from) ==
    LET left == {k \in from..Len(Stages) : Wants(p, Stages[k]) /\ ~(Fresh(p.from) /\ KnownAdmin(p.from))}
    IN  IF left = {} THEN [p EXCEPT !.stage = Len(Stages) + 1, !.at = "done", !.since = 0, !.doom = {}]
        ELSE [p EXCEPT !.stage = Min(left),
                       !.at = IF Fresh(p.from) THEN "acts" ELSE "asks", !.since = now, !.doom = {}]

Passes(i) == posts' = [posts EXCEPT ![i] = Onward(@, @.stage + 1)]
At(i, s, a) == posts[i].stage \in DOMAIN Stages /\ Stages[posts[i].stage] = s /\ posts[i].at = a

Arrives(m, t) ==
    /\ posts' = Append(posts, Onward([from |-> m, text |-> t, stage |-> 0, at |-> "new",
                                      since |-> now, doom |-> {}], 1))
    /\ Ordered
    /\ UNCHANGED <<filtering, greeting, admins, cache, tracker, warnedAt, warnRow, tagging, joined, History>>

\* get_permissions answers; an error is taken, and kept, as "is an admin".
Learns(i, is) ==
    /\ posts[i].at = "asks"
    /\ cache' = [cache EXCEPT ![posts[i].from] = {<<is, posts[i].since>>}]
    /\ posts' = [posts EXCEPT ![i] = IF is THEN Onward(@, @.stage + 1) ELSE [@ EXCEPT !.at = "acts"]]

Answers(i) ==
    /\ Learns(i, posts[i].from \in admins)
    /\ Calm /\ UNCHANGED <<filtering, greeting, admins, tracker, warnedAt, warnRow, tagging, joined, History>>

UnknownIsPlain == FALSE     \* variant: after an error the sender is taken for plain

Unknown == TRUE

AnswerFails(i) ==
    /\ Learns(i, Unknown)
    /\ Fault /\ UNCHANGED <<filtering, greeting, admins, tracker, warnedAt, warnRow, tagging, joined, History>>

\* delete and ban calls: whether they succeed or raise, the task goes on.
Deletes(i, ids) == Passes(i) /\ doomed' = doomed \cup ids

Quiet == UNCHANGED <<filtering, greeting, admins, cache, warnedAt, warnRow, tagging, joined, plainAt>>

LinkDeletes(i) ==
    /\ At(i, "link", "acts") /\ Deletes(i, {i})
    /\ Calm /\ Quiet /\ UNCHANGED <<tracker, heard>>

\* The photo is downloaded and shown to the AI; what is neither SAFE nor an
\* error counts as indecent.
PornJudges(i, deletes) ==
    /\ At(i, "porn", "acts")
    /\ IF deletes THEN posts[i].text = "nude" /\ Deletes(i, {i}) ELSE Passes(i) /\ UNCHANGED doomed
    /\ Calm /\ Quiet /\ UNCHANGED <<tracker, heard>>

\* The deque of a sender: what is too old goes, the message comes in, and where
\* that is one too many, an oldest entry goes.
InWindow(m)   == {e \in tracker[m] : now - e[1] <= SpamWindow}
Oldest(w)     == {e \in w : \A x \in w : e[1] <= x[1]}
Windows(m, i) ==
    LET old == InWindow(m)
        new == {<<now, i, posts[i].text>>}
    IN  IF Cardinality(old) < SpamDeque THEN {old \cup new} ELSE {(old \ {e}) \cup new : e \in Oldest(old)}
Ids(w)     == {e[2] : e \in w}
Said(w, t) == {e \in w : e[3] = t}
IsFloodLate(w) == Cardinality(w) > SpamMax + 1      \* variant: one message too many

IsFlood(w) == Cardinality(w) > SpamMax

\* A flood goes as a whole, of a text said too often every copy.
Doom(w, t) == IF IsFlood(w) THEN Ids(w)
              ELSE IF t \in Worded /\ Cardinality(Said(w, t)) >= SpamRepeats THEN Ids(Said(w, t)) ELSE {}

SpamCounts(i) ==
    /\ At(i, "spam", "acts")
    /\ \E w \in Windows(posts[i].from, i) :
         LET p == posts[i]
             doom == Doom(w, p.text)
         IN  /\ tracker' = [tracker EXCEPT ![p.from] = {e \in w : e[2] \notin doom}]
             /\ posts' = [posts EXCEPT ![i] = IF doom = {} THEN Onward(@, @.stage + 1)
                                               ELSE [@ EXCEPT !.at = "deletes", !.since = now, !.doom = doom]]
             /\ doomed' = doomed \cup doom
    /\ heard' = heard \cup {<<i, now>>}
    /\ Calm /\ Quiet

\* The delete has returned, or raised; the warning keeps its distance.
SpamWarns(i) ==
    /\ At(i, "spam", "deletes")
    /\ Passes(i)
    /\ warnedAt' = [warnedAt EXCEPT ![posts[i].from] =
                      IF posts[i].since - @ >= SpamCooldown THEN posts[i].since ELSE @]
    /\ Calm /\ UNCHANGED <<filtering, greeting, admins, cache, tracker, warnRow, tagging, joined, History>>

\* The first filter that matches says what is done: warned, deleted or banned.
WordActs(i, deletes) ==
    /\ At(i, "word", "acts")
    /\ IF deletes THEN posts[i].text = "bad" /\ Deletes(i, {i}) ELSE Passes(i) /\ UNCHANGED doomed
    /\ Calm /\ Quiet /\ UNCHANGED <<tracker, heard>>

-----------------------------------------------------------------------------
(* The group, and the owner's commands.                                    *)

Promote(m) ==
    /\ admins' = IF m \in admins THEN admins \ {m} ELSE admins \cup {m}
    /\ plainAt' = [plainAt EXCEPT ![m] = now]
    /\ Ordered /\ UNCHANGED <<filtering, greeting, cache, posts, tracker, warnedAt, warnRow, tagging, joined,
                              heard, doomed>>

Others == UNCHANGED <<admins, cache, posts, tracker, warnedAt, History>>

SwitchFilter(f) ==
    /\ filtering' = IF f \in filtering THEN filtering \ {f} ELSE filtering \cup {f}
    /\ Ordered /\ Others /\ UNCHANGED <<greeting, warnRow, tagging, joined>>

SwitchWelcome(b) ==
    /\ greeting' = b
    /\ Ordered /\ Others /\ UNCHANGED <<filtering, warnRow, tagging, joined>>

Joins(m) ==
    /\ joined' = IF greeting THEN joined \cup {m} ELSE joined
    /\ Ordered /\ Others /\ UNCHANGED <<filtering, greeting, warnRow, tagging>>

\* get_users has answered or raised; each user is greeted, or the send fails.
Welcomes(m) ==
    /\ m \in joined /\ joined' = joined \ {m}
    /\ Calm /\ Others /\ UNCHANGED <<filtering, greeting, warnRow, tagging>>

TagAll(n) ==
    /\ tagging < 0 /\ tagging' = n
    /\ Ordered /\ Others /\ UNCHANGED <<filtering, greeting, warnRow, joined>>

\* A batch is sent, or fails and is left out, and a pause follows.
TagBatch ==
    /\ tagging >= 0 /\ tagging' = tagging - 1
    /\ Calm /\ Others /\ UNCHANGED <<filtering, greeting, warnRow, joined>>

Counted(m) == IF warnRow[m] = {} THEN 0 ELSE CHOOSE n \in warnRow[m] : TRUE

\* add_warn: the row is made in a session of its own; the count is changed on
\* what that session left behind, and the refresh raises.
AddWarn(m) ==
    /\ warnRow' = [warnRow EXCEPT ![m] = IF @ = {} THEN {0} ELSE @]
    /\ Ordered /\ Others /\ UNCHANGED <<filtering, greeting, tagging, joined>>

RemoveWarn(m) ==
    /\ warnRow' = [warnRow EXCEPT ![m] = IF Counted(m) > 0 THEN {Counted(m) - 1} ELSE @]
    /\ Ordered /\ Others /\ UNCHANGED <<filtering, greeting, tagging, joined>>

ClearWarns(m) ==
    /\ warnRow' = [warnRow EXCEPT ![m] = IF @ = {} THEN @ ELSE {0}]
    /\ Ordered /\ Others /\ UNCHANGED <<filtering, greeting, tagging, joined>>

\* The process dies: only the rows stay.
GuardCrash ==
    /\ Fault
    /\ cache' = [m \in Member |-> {}] /\ tracker' = [m \in Member |-> {}]
    /\ warnedAt' = [m \in Member |-> 0 - SpamCooldown]
    /\ posts' = [i \in DOMAIN posts |-> [posts[i] EXCEPT
         !.stage = Len(Stages) + 1, !.at = "done", !.since = 0, !.doom = {}]]
    /\ tagging' = 0 - 1 /\ joined' = {}
    /\ heard' = {}
    /\ UNCHANGED <<filtering, greeting, admins, warnRow, plainAt, doomed>>

GuardTick ==
    /\ Advance
    /\ plainAt' = [m \in Member |-> IF m \in admins THEN plainAt[m] ELSE now + 1]
    /\ UNCHANGED <<filtering, greeting, admins, cache, posts, tracker, warnedAt, warnRow, tagging, joined,
                   heard, doomed>>

-----------------------------------------------------------------------------
\* Delete is called for a message only by a task, of it or of a later message of its
\* sender, that began to ask about the sender less than CacheTTL after the sender was
\* a plain member, or before: neither a failed question nor an entry of the cache
\* lets a watcher delete from who had been an admin for longer (groupguard.py:104-126).
\* From the answer on nobody looks again: a photo may be downloaded and judged, or the
\* filters searched, for any time before the delete (groupguard.py:403-415, 737-743).
AdminsSpared ==
    [][\A d \in doomed' \ doomed : \E i \in DOMAIN posts :
         /\ posts[i].at = "acts" /\ posts[i].from = posts[d].from
         /\ posts[i].since - plainAt[posts[i].from] < CacheTTL]_<<envVars, guardVars>>

\* If a flood fits into a deque: of what the spam watcher counted in any window of a
\* sender, there are no more than SpamMax messages, and fewer than SpamRepeats of one
\* text, that no delete was called for, in whatever order the checks of their sender
\* ended (groupguard.py:586-626).  With limits of 50 or more, which config.py:134-135
\* lets through, no flood is ever found.
SpamCaught ==
    SpamMax < SpamDeque =>
      \A m \in Member :
        LET kept == {h[1] : h \in {h \in heard : posts[h[1]].from = m /\ now - h[2] <= SpamWindow}} \ doomed
        IN  /\ Cardinality(kept) <= SpamMax
            /\ \A t \in Worded : Cardinality({i \in kept : posts[i].text = t}) < SpamRepeats

\* What the command says: a warning is added (warn_repo.py:31).
WarningsAreCounted ==
    [][\A m \in Member : AddWarn(m) => warnRow'[m] = {Counted(m) + 1}]_<<envVars, guardVars>>

GuardTypes ==
    /\ filtering \subseteq Filter
    /\ \A m \in Member : Cardinality(cache[m]) <= 1 /\ Cardinality(warnRow[m]) <= 1
    /\ \A i \in DOMAIN posts : posts[i].at \in {"asks", "acts", "deletes", "done"}
                               /\ (posts[i].at = "done") = (posts[i].stage > Len(Stages))
    /\ doomed \subseteq DOMAIN posts
=============================================================================
