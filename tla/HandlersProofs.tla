---------------------------- MODULE HandlersProofs ----------------------------
(***************************************************************************)
(* What holds of the handlers for every value of the constants: the guard  *)
(* of a group spares admins and catches spam, rules have their turn, rows  *)
(* are as the commands were told, the plugins that are called, listed and  *)
(* on disk agree, a game in chat ends only as it should, and a command     *)
(* tells the truth of how it ended.  Each part has its next-state          *)
(* relation, its specification, its inductive invariant and its theorem;   *)
(* as in MCHandlers, the parts do not touch each other.                    *)
(***************************************************************************)
EXTENDS MCHandlers, SchemaProofs, SequenceTheorems, FiniteSetTheorems,
        WellFoundedInduction, TLAPS

-----------------------------------------------------------------------------
(* The guard: whoever is known as no admin was a plain member at the time. *)

WatcherNext ==
    \E i \in DOMAIN posts :
      \/ Answers(i) \/ AnswerFails(i) \/ LinkDeletes(i) \/ SpamCounts(i) \/ SpamWarns(i)
      \/ \E b \in BOOLEAN : PornJudges(i, b) \/ WordActs(i, b)

GroupNext ==
    \/ \E f \in Filter : SwitchFilter(f)
    \/ \E b \in BOOLEAN : SwitchWelcome(b)
    \/ \E n \in Nat : TagAll(n)
    \/ TagBatch
    \/ \E m \in Member :
         Joins(m) \/ Welcomes(m) \/ AddWarn(m) \/ RemoveWarn(m) \/ ClearWarns(m)

GuardNext ==
    \/ WatcherNext \/ GroupNext
    \/ \E m \in Member : Promote(m) \/ \E t \in Text : Arrives(m, t)
    \/ GuardCrash \/ GuardTick

GuardSpec == EnvInit /\ GuardInit /\ [][GuardNext]_<<envVars, guardVars>>

-----------------------------------------------------------------------------
\* A message and where its task is: what was asked was not asked in the future.
IsPost(p) ==
    /\ DOMAIN p = {"from", "text", "stage", "at", "since", "doom"}
    /\ p.from \in Member
    /\ p.stage \in 0..5
    /\ p.since \in Int /\ p.since <= now

\* A watcher acts only if it began to ask less than CacheTTL after the sender was a
\* plain member.
Fair(p) == p.at = "acts" => p.since - plainAt[p.from] < CacheTTL

\* The messages are a sequence of such.
IsSeq(s) == s \in Seq({s[i] : i \in DOMAIN s})
Underway ==
    /\ now \in Nat
    /\ IsSeq(posts)
    /\ \A i \in DOMAIN posts : IsPost(posts[i]) /\ Fair(posts[i])

\* Who is no admin now is plain now; and who the cache says was no admin at
\* some instant was plain then or later.
Answered ==
    /\ plainAt \in [Member -> Int]
    /\ DOMAIN cache = Member
    /\ \A m \in Member :
         /\ plainAt[m] <= now
         /\ m \notin admins => plainAt[m] = now
         /\ \A e \in cache[m] : /\ e[1] \in BOOLEAN /\ e[2] \in Int /\ e[2] <= now
                                /\ ~e[1] => plainAt[m] >= e[2]

GInv == Underway /\ Answered

-----------------------------------------------------------------------------
\* A sequence is a function on 1..n, for some n.
LEMMA ASequence ==
    ASSUME NEW s
    PROVE  /\ IsSeq(s) => \E n \in Nat : s = [i \in 1..n |-> s[i]]
           /\ \A n \in Nat : s = [i \in 1..n |-> s[i]] => IsSeq(s)
  <1>1. ASSUME IsSeq(s)
        PROVE  \E n \in Nat : s = [i \in 1..n |-> s[i]]
    BY <1>1, SeqDef DEF IsSeq
  <1>2. ASSUME NEW n \in Nat, s = [i \in 1..n |-> s[i]]
        PROVE  IsSeq(s)
    <2>1. s \in [1..n -> {s[i] : i \in DOMAIN s}]
      BY <1>2
    <2> QED BY <2>1, SeqDef DEF IsSeq
  <1> QED BY <1>1, <1>2

\* The first of the stages left to a message.
LEMMA FirstStage ==
    ASSUME NEW S \in SUBSET (1..4), S # {}
    PROVE  Min(S) \in S
  <1>1. \E x \in S : \A y \in S : x =< y
    <2>0. 1 \in S \/ 2 \in S \/ 3 \in S \/ 4 \in S
      <3>1. PICK x : x \in S
        OBVIOUS
      <3>2. x = 1 \/ x = 2 \/ x = 3 \/ x = 4
        BY <3>1
      <3> QED BY <3>1, <3>2
    <2>1. CASE 1 \in S
      BY <2>1
    <2>2. CASE 1 \notin S /\ 2 \in S
      BY <2>2
    <2>3. CASE 1 \notin S /\ 2 \notin S /\ 3 \in S
      BY <2>3
    <2>4. CASE 1 \notin S /\ 2 \notin S /\ 3 \notin S
      BY <2>0, <2>4
    <2> QED BY <2>1, <2>2, <2>3, <2>4
  <1> QED BY <1>1 DEF Min

\* A message goes on to a watcher that acts only on a fresh answer that its sender
\* is no admin.
LEMMA OnwardIsFair ==
    ASSUME GuardAssumption, GInv, NEW p, IsPost(p), NEW from \in 1..6
    PROVE  IsPost(Onward(p, from)) /\ Onward(p, from).from = p.from /\ Fair(Onward(p, from))
  <1> DEFINE left == {k \in from..Len(Stages) :
                        Wants(p, Stages[k]) /\ ~(Fresh(p.from) /\ KnownAdmin(p.from))}
             done == [p EXCEPT !.stage = Len(Stages) + 1, !.at = "done", !.since = 0, !.doom = {}]
             next == [p EXCEPT !.stage = Min(left),
                               !.at = IF Fresh(p.from) THEN "acts" ELSE "asks",
                               !.since = now, !.doom = {}]
  <1>1. Onward(p, from) = IF left = {} THEN done ELSE next
    BY DEF Onward
  <1>2. Len(Stages) = 4
    BY DEF Stages
  <1>3. now \in Nat
    BY DEF GInv, Underway
  <1>4. CASE left = {}
    <2>1. IsPost(done) /\ done.from = p.from /\ done.at = "done"
      BY <1>2, <1>3 DEF IsPost
    <2> QED BY <1>1, <1>4, <2>1 DEF Fair
  <1>5. CASE left # {}
    <2>1. left \subseteq 1..4
      BY <1>2
    <2>2. Min(left) \in 1..4
      <3> HIDE DEF left
      <3> QED BY <1>5, <2>1, FirstStage
    <2>3. IsPost(next) /\ next.from = p.from /\ next.since = now
          /\ next.at = IF Fresh(p.from) THEN "acts" ELSE "asks"
      <3> HIDE DEF left
      <3> QED BY <1>3, <2>2 DEF IsPost
    <2>4. ASSUME next.at = "acts"
          PROVE  next.since - plainAt[p.from] < CacheTTL
      <3>1. Fresh(p.from) /\ ~KnownAdmin(p.from)
        BY <1>5, <2>3, <2>4
      <3>2. PICK e \in cache[p.from] : now - e[2] < CacheTTL /\ ~e[1]
        BY <3>1 DEF Fresh, KnownAdmin
      <3>3. now - plainAt[p.from] < CacheTTL
        BY <1>3, <3>2 DEF IsPost, GInv, Answered, GuardAssumption
      <3> QED BY <2>3, <3>3
    <2>5. Fair(next)
      BY <2>3, <2>4 DEF Fair
    <2> QED BY <1>1, <1>5, <2>3, <2>5
  <1> QED BY <1>4, <1>5

\* One message that moves, to where it may act only if that is fair, keeps
\* them all so.
LEMMA OneMoves ==
    ASSUME GInv, NEW i \in DOMAIN posts, NEW q, IsPost(q), Fair(q),
           posts' = [posts EXCEPT ![i] = q], UNCHANGED <<now, plainAt>>
    PROVE  Underway'
  <1> USE DEF GInv
  <1>1. PICK n \in Nat : posts = [j \in 1..n |-> posts[j]]
    BY ASequence DEF Underway
  <1>2. DOMAIN posts' = 1..n /\ posts' = [j \in 1..n |-> posts'[j]]
    BY <1>1
  <1>3. IsSeq(posts')
    BY <1>2, ASequence
  <1>4. \A j \in DOMAIN posts' : posts'[j] = IF j = i THEN q ELSE posts[j]
    BY <1>1, <1>2
  <1>5. \A j \in DOMAIN posts' : IsPost(posts[j])' /\ Fair(posts[j])'
    BY <1>1, <1>2, <1>4 DEF Underway, IsPost, Fair
  <1> QED BY <1>3, <1>5 DEF Underway

\* A message that goes on to its next watcher.
LEMMA PassesOn ==
    ASSUME GuardAssumption, GInv, NEW i \in DOMAIN posts, Passes(i), UNCHANGED <<now, plainAt>>
    PROVE  Underway'
  <1> DEFINE q == Onward(posts[i], posts[i].stage + 1)
  <1>1. IsPost(posts[i]) /\ posts[i].stage + 1 \in 1..6
    BY DEF GInv, Underway, IsPost
  <1>2. IsPost(q) /\ Fair(q)
    BY <1>1, OnwardIsFair
  <1>3. posts' = [posts EXCEPT ![i] = q]
    BY DEF Passes
  <1> HIDE DEF q
  <1> QED BY <1>2, <1>3, OneMoves

\* The answer about a sender: known as no admin only while that is so.
LEMMA AnswersInv ==
    ASSUME GuardAssumption, GInv, NEW i \in DOMAIN posts, Answers(i) \/ AnswerFails(i)
    PROVE  GInv'
  <1> USE DEF GInv
  <1>1. UNCHANGED <<now, admins, plainAt>> /\ posts[i].at = "asks"
    BY DEF Answers, AnswerFails, Learns, Calm, Fault, envVars, History
  <1>2. PICK is \in BOOLEAN : Learns(i, is) /\ (~is => posts[i].from \notin admins)
    <2>1. CASE Answers(i)
      <3>1. Learns(i, posts[i].from \in admins)
        BY <2>1 DEF Answers
      <3>2. (posts[i].from \in admins) \in BOOLEAN
        OBVIOUS
      <3> QED BY <3>1, <3>2, Zenon
    <2>2. CASE AnswerFails(i)
      BY <2>2 DEF AnswerFails, Unknown
    <2> QED BY <2>1, <2>2
  <1> DEFINE p == posts[i]
             q == IF is THEN Onward(p, p.stage + 1) ELSE [p EXCEPT !.at = "acts"]
  <1>3. IsPost(p) /\ p.stage + 1 \in 1..6 /\ now \in Nat
    BY DEF Underway, IsPost
  <1>4. ASSUME ~is
        PROVE  p.since - plainAt[p.from] < CacheTTL
    BY <1>2, <1>3, <1>4 DEF Answered, IsPost, GuardAssumption
  <1>5. IsPost(q) /\ Fair(q)
    <2>1. CASE is
      BY <1>3, <2>1, OnwardIsFair
    <2>2. CASE ~is
      <3>1. IsPost([p EXCEPT !.at = "acts"]) /\ [p EXCEPT !.at = "acts"].from = p.from
            /\ [p EXCEPT !.at = "acts"].since = p.since
        BY <1>3 DEF IsPost
      <3> QED BY <1>4, <2>2, <3>1 DEF Fair
    <2> QED BY <2>1, <2>2
  <1>6. posts' = [posts EXCEPT ![i] = q]
    BY <1>2 DEF Learns
  <1>7. Underway'
    <2> HIDE DEF q
    <2> QED BY <1>1, <1>5, <1>6, OneMoves
  <1>8. Answered'
    <2>1. cache' = [cache EXCEPT ![p.from] = {<<is, p.since>>}]
      BY <1>2 DEF Learns
    <2>2. ASSUME NEW m \in Member, NEW e \in cache'[m]
          PROVE  /\ e[1] \in BOOLEAN /\ e[2] \in Int /\ e[2] <= now
                 /\ ~e[1] => plainAt[m] >= e[2]
      <3>1. CASE m # p.from
        BY <2>1, <2>2, <3>1 DEF Answered
      <3>2. CASE m = p.from
        <4>1. e = <<is, p.since>>
          BY <1>3, <2>1, <2>2, <3>2 DEF Answered, IsPost
        <4>2. p.since \in Int /\ p.since <= now
          BY <1>3 DEF IsPost
        <4>3. ASSUME ~is PROVE plainAt[m] >= p.since
          BY <1>2, <3>2, <4>2, <4>3 DEF Answered
        <4> QED BY <4>1, <4>2, <4>3
      <3> QED BY <3>1, <3>2
    <2>3. DOMAIN cache' = Member
      BY <2>1 DEF Answered
    <2> QED BY <1>1, <2>2, <2>3 DEF Answered
  <1> QED BY <1>7, <1>8

\* The watchers that act: the message goes on, or waits for its delete.
LEMMA ActsInv ==
    ASSUME GuardAssumption, GInv, NEW i \in DOMAIN posts,
           \/ LinkDeletes(i) \/ SpamCounts(i) \/ SpamWarns(i)
           \/ \E b \in BOOLEAN : PornJudges(i, b) \/ WordActs(i, b)
    PROVE  GInv'
  <1> USE DEF GInv
  <1>1. UNCHANGED <<now, admins, cache, plainAt>>
    BY DEF LinkDeletes, SpamCounts, SpamWarns, PornJudges, WordActs, Calm, Quiet, envVars, History
  <1>2. Answered'
    BY <1>1 DEF Answered
  <1>4. CASE ~SpamCounts(i)
    <2>1. Passes(i)
      BY <1>4 DEF LinkDeletes, SpamWarns, PornJudges, WordActs, Deletes
    <2> QED BY <1>1, <1>2, <2>1, PassesOn
  <1>5. CASE SpamCounts(i)
    <2>1. PICK doom : posts' = [posts EXCEPT ![i] = IF doom = {} THEN Onward(@, @.stage + 1)
                                                   ELSE [@ EXCEPT !.at = "deletes", !.since = now,
                                                                  !.doom = doom]]
      BY <1>5 DEF SpamCounts
    <2>2. CASE doom = {}
      <3>1. Passes(i)
        BY <2>1, <2>2 DEF Passes
      <3> QED BY <1>1, <1>2, <3>1, PassesOn
    <2>3. CASE doom # {}
      <3> DEFINE q == [posts[i] EXCEPT !.at = "deletes", !.since = now, !.doom = doom]
      <3>1. posts' = [posts EXCEPT ![i] = q]
        BY <2>1, <2>3
      <3>2. IsPost(posts[i]) /\ now \in Nat
        BY DEF Underway
      <3>3. IsPost(q) /\ q.at = "deletes"
        BY <3>2 DEF IsPost
      <3>4. Fair(q)
        BY <3>3 DEF Fair
      <3> HIDE DEF q
      <3> QED BY <1>1, <1>2, <3>1, <3>3, <3>4, OneMoves
    <2> QED BY <2>2, <2>3
  <1> QED BY <1>4, <1>5

\* A new message joins the others.
LEMMA ArrivesInv ==
    ASSUME GuardAssumption, GInv, NEW m \in Member, NEW t \in Text, Arrives(m, t)
    PROVE  GInv'
  <1> USE DEF GInv
  <1> DEFINE p == [from |-> m, text |-> t, stage |-> 0, at |-> "new", since |-> now, doom |-> {}]
             q == Onward(p, 1)
  <1>1. UNCHANGED <<now, admins, cache, plainAt>> /\ posts' = Append(posts, q)
    BY DEF Arrives, Ordered, History
  <1>2. IsPost(p) /\ now \in Nat
    BY DEF Underway, IsPost
  <1>3. IsPost(q) /\ Fair(q)
    BY <1>2, OnwardIsFair
  <1> HIDE DEF q
  <1> DEFINE W == {posts[i] : i \in DOMAIN posts} \cup {q}
  <1>4. posts \in Seq(W)
    BY SeqMonotonic DEF Underway, IsSeq
  <1>5. /\ posts' \in Seq(W) /\ Len(posts') = Len(posts) + 1
        /\ \A i \in 1..Len(posts) : posts'[i] = posts[i]
        /\ posts'[Len(posts) + 1] = q
    BY <1>1, <1>4, AppendProperties
  <1>6. Len(posts) \in Nat /\ DOMAIN posts = 1..Len(posts) /\ DOMAIN posts' = 1..Len(posts')
    BY <1>4, <1>5
  <1>7. IsSeq(posts')
    <2>1. PICK n \in Nat : posts' \in [1..n -> W]
      BY <1>5, SeqDef
    <2>2. posts' = [i \in 1..n |-> posts'[i]]
      BY <2>1
    <2> QED BY <2>2, ASequence
  <1>8. \A i \in DOMAIN posts' : IsPost(posts[i])' /\ Fair(posts[i])'
    BY <1>1, <1>3, <1>5, <1>6 DEF Underway, IsPost, Fair
  <1> QED BY <1>1, <1>7, <1>8 DEF Underway, Answered

\* The group, the owner, and time: no message moves, and what is known of the
\* members stays true.
LEMMA GroupInv ==
    ASSUME GuardAssumption, GInv,
           GroupNext \/ (\E m \in Member : Promote(m)) \/ GuardTick \/ UNCHANGED <<envVars, guardVars>>
    PROVE  GInv'
  <1> USE DEF GInv
  <1>1. UNCHANGED <<posts, cache>>
    BY DEF GroupNext, Promote, GuardTick, guardVars, Others, SwitchFilter, SwitchWelcome, TagAll,
           TagBatch, Joins, Welcomes, AddWarn, RemoveWarn, ClearWarns
  <1>3. CASE GroupNext \/ UNCHANGED <<envVars, guardVars>>
    <2>1. UNCHANGED <<now, admins, plainAt>>
      BY <1>3 DEF GroupNext, envVars, guardVars, Others, History, SwitchFilter, SwitchWelcome,
             TagAll, TagBatch, Joins, Welcomes, AddWarn, RemoveWarn, ClearWarns, Ordered, Calm
    <2> QED BY <1>1, <2>1 DEF Underway, IsSeq, IsPost, Fair, Answered
  <1>4. CASE \E m \in Member : Promote(m)
    <2>1. PICK m \in Member : /\ admins' = IF m \in admins THEN admins \ {m} ELSE admins \cup {m}
                              /\ plainAt' = [plainAt EXCEPT ![m] = now] /\ now' = now
      BY <1>4 DEF Promote, Ordered
    <2>2. Underway'
      <3>1. ASSUME NEW i \in DOMAIN posts
            PROVE  IsPost(posts[i])' /\ Fair(posts[i])'
        <4>1. IsPost(posts[i]) /\ Fair(posts[i]) /\ now \in Nat /\ plainAt[posts[i].from] \in Int
              /\ plainAt'[posts[i].from] \in Int /\ plainAt[posts[i].from] <= plainAt'[posts[i].from]
          BY <2>1, <3>1 DEF Underway, IsPost, Answered
        <4> QED BY <1>1, <2>1, <4>1 DEF IsPost, Fair, GuardAssumption
      <3> QED BY <1>1, <2>1, <3>1 DEF Underway, IsSeq
    <2>3. Answered'
      BY <1>1, <2>1 DEF Underway, Answered
    <2> QED BY <2>2, <2>3
  <1>5. CASE GuardTick
    <2>1. /\ now' = now + 1 /\ admins' = admins
          /\ plainAt' = [m \in Member |-> IF m \in admins THEN plainAt[m] ELSE now + 1]
      BY <1>5 DEF GuardTick, Advance
    <2>2. Underway'
      <3>1. ASSUME NEW i \in DOMAIN posts
            PROVE  IsPost(posts[i])' /\ Fair(posts[i])'
        <4>1. IsPost(posts[i]) /\ Fair(posts[i]) /\ now \in Nat /\ plainAt[posts[i].from] \in Int
              /\ plainAt'[posts[i].from] \in Int /\ plainAt[posts[i].from] <= plainAt'[posts[i].from]
          BY <2>1, <3>1 DEF Underway, IsPost, Answered
        <4> QED BY <1>1, <2>1, <4>1 DEF IsPost, Fair, GuardAssumption
      <3> QED BY <1>1, <2>1, <3>1 DEF Underway, IsSeq
    <2>3. Answered'
      BY <1>1, <2>1 DEF Underway, Answered
    <2> QED BY <2>2, <2>3
  <1> QED BY <1>3, <1>4, <1>5

\* A process that dies leaves no task and no answer.
LEMMA GuardCrashInv ==
    ASSUME GInv, GuardCrash
    PROVE  GInv'
  <1> USE DEF GInv
  <1>1. /\ UNCHANGED <<now, admins, plainAt>> /\ cache' = [m \in Member |-> {}]
        /\ posts' = [i \in DOMAIN posts |-> [posts[i] EXCEPT
             !.stage = Len(Stages) + 1, !.at = "done", !.since = 0, !.doom = {}]]
    BY DEF GuardCrash, Fault
  <1>2. PICK n \in Nat : posts = [j \in 1..n |-> posts[j]]
    BY ASequence DEF Underway
  <1>3. IsSeq(posts')
    <2>1. DOMAIN posts = 1..n
      BY <1>2
    <2>2. posts' = [j \in 1..n |-> posts'[j]]
      BY <1>1, <2>1
    <2> QED BY <2>2, ASequence
  <1>4. Len(Stages) + 1 = 5
    BY DEF Stages
  <1>5. ASSUME NEW i \in DOMAIN posts'
        PROVE  IsPost(posts[i])' /\ posts'[i].at = "done"
    <2>1. i \in DOMAIN posts /\ IsPost(posts[i]) /\ now \in Nat
      BY <1>1, <1>5 DEF Underway
    <2>2. posts'[i] = [posts[i] EXCEPT !.stage = 5, !.at = "done", !.since = 0, !.doom = {}]
      BY <1>1, <1>4, <2>1
    <2>3. /\ DOMAIN posts'[i] = {"from", "text", "stage", "at", "since", "doom"}
          /\ posts'[i].from \in Member /\ posts'[i].stage = 5 /\ posts'[i].since = 0
          /\ posts'[i].at = "done"
      BY <2>1, <2>2 DEF IsPost
    <2>4. posts'[i].stage \in 0..5 /\ posts'[i].since \in Int /\ posts'[i].since <= now'
      <3>1. now' \in Nat
        BY <1>1, <2>1
      <3>2. 5 \in 0..5 /\ 0 \in Int /\ 0 <= now'
        BY <3>1
      <3> QED BY <2>3, <3>2, Zenon
    <2> QED BY <2>3, <2>4 DEF IsPost
  <1>6. Underway'
    BY <1>1, <1>3, <1>5 DEF Underway, Fair
  <1>7. Answered'
    BY <1>1 DEF Answered
  <1> QED BY <1>6, <1>7

\* Every step keeps the invariant.
LEMMA GuardStepInv ==
    ASSUME GuardAssumption, GInv, [GuardNext]_<<envVars, guardVars>>
    PROVE  GInv'
  BY AnswersInv, ActsInv, ArrivesInv, GroupInv, GuardCrashInv DEF GuardNext, WatcherNext

\* The initial state satisfies the invariant.
LEMMA GuardInitInv ==
    ASSUME GuardAssumption, EnvInit, GuardInit
    PROVE  GInv
  <1> USE DEF EnvInit, GuardInit
  <1>1. posts = [i \in 1..0 |-> posts[i]] /\ DOMAIN posts = {}
    OBVIOUS
  <1>2. Underway
    BY <1>1, ASequence DEF Underway
  <1>3. Answered
    BY DEF Answered, GuardAssumption
  <1> QED BY <1>2, <1>3 DEF GInv

-----------------------------------------------------------------------------
\* The invariant the theorem below rests on holds in every reachable state.
THEOREM GuardInvariant == ASSUME GuardAssumption PROVE GuardSpec => []GInv
  <1>1. EnvInit /\ GuardInit => GInv
    BY GuardInitInv
  <1>2. GInv /\ [GuardNext]_<<envVars, guardVars>> => GInv'
    BY GuardStepInv
  <1> QED BY <1>1, <1>2, PTL DEF GuardSpec

-----------------------------------------------------------------------------
(* The guard: what a watcher deletes is of a sender it asked about.        *)

\* The messages that were there are there, from whom and as they were.
SameMessages ==
    \A i \in DOMAIN posts :
      i \in DOMAIN posts' /\ posts'[i].from = posts[i].from /\ posts'[i].text = posts[i].text

\* A message that goes on keeps its sender and its text.
LEMMA OnwardIsTheSame ==
    ASSUME NEW p, DOMAIN p = {"from", "text", "stage", "at", "since", "doom"}, NEW from
    PROVE  Onward(p, from).from = p.from /\ Onward(p, from).text = p.text
  <1> DEFINE left == {k \in from..Len(Stages) :
                        Wants(p, Stages[k]) /\ ~(Fresh(p.from) /\ KnownAdmin(p.from))}
             done == [p EXCEPT !.stage = Len(Stages) + 1, !.at = "done", !.since = 0, !.doom = {}]
             next == [p EXCEPT !.stage = Min(left),
                               !.at = IF Fresh(p.from) THEN "acts" ELSE "asks",
                               !.since = now, !.doom = {}]
  <1>1. Onward(p, from) = IF left = {} THEN done ELSE next
    BY DEF Onward
  <1>2. done.from = p.from /\ done.text = p.text
    OBVIOUS
  <1>3. next.from = p.from /\ next.text = p.text
    <2> HIDE DEF left
    <2> QED OBVIOUS
  <1> HIDE DEF left, done, next
  <1> QED BY <1>1, <1>2, <1>3

\* A message that goes on to its next watcher.
LEMMA PassingIsTheSame ==
    ASSUME GInv, NEW i \in DOMAIN posts, Passes(i)
    PROVE  SameMessages
  <1>1. IsPost(posts[i])
    BY DEF GInv, Underway
  <1>2. /\ Onward(posts[i], posts[i].stage + 1).from = posts[i].from
        /\ Onward(posts[i], posts[i].stage + 1).text = posts[i].text
    BY <1>1, OnwardIsTheSame DEF IsPost
  <1>3. posts' = [posts EXCEPT ![i] = Onward(posts[i], posts[i].stage + 1)]
    BY DEF Passes
  <1> QED BY <1>2, <1>3 DEF SameMessages

\* The spam watcher counts with a deque of those in its window and the new message.
LEMMA WindowHolds ==
    ASSUME NEW m, NEW i, NEW w \in Windows(m, i)
    PROVE  w \subseteq InWindow(m) \cup {<<now, i, posts[i].text>>}
  BY DEF Windows

\* Whoever does something, no message changes its sender or its text.
LEMMA MessagesStay ==
    ASSUME GuardAssumption, GInv, [GuardNext]_<<envVars, guardVars>>
    PROVE  SameMessages
  <1>1. CASE WatcherNext
    <2>1. PICK i \in DOMAIN posts :
            \/ Answers(i) \/ AnswerFails(i) \/ LinkDeletes(i) \/ SpamCounts(i) \/ SpamWarns(i)
            \/ \E b \in BOOLEAN : PornJudges(i, b) \/ WordActs(i, b)
      BY <1>1 DEF WatcherNext
    <2>2. IsPost(posts[i])
      BY DEF GInv, Underway
    <2>3. CASE Passes(i)
      BY <2>3, PassingIsTheSame
    <2>4. CASE ~Passes(i) /\ (Answers(i) \/ AnswerFails(i))
      <3>1. PICK is : posts' = [posts EXCEPT ![i] = IF is THEN Onward(@, @.stage + 1)
                                                       ELSE [@ EXCEPT !.at = "acts"]]
        BY <2>4 DEF Answers, AnswerFails, Learns
      <3>2. posts' = [posts EXCEPT ![i] = [posts[i] EXCEPT !.at = "acts"]]
        BY <2>4, <3>1 DEF Passes
      <3> QED BY <2>2, <3>2 DEF SameMessages, IsPost
    <2>5. CASE ~Passes(i) /\ SpamCounts(i)
      <3>1. PICK doom : posts' = [posts EXCEPT ![i] = IF doom = {} THEN Onward(@, @.stage + 1)
                                     ELSE [@ EXCEPT !.at = "deletes", !.since = now, !.doom = doom]]
        BY <2>5 DEF SpamCounts
      <3>2. posts' = [posts EXCEPT ![i] = [posts[i] EXCEPT !.at = "deletes", !.since = now, !.doom = doom]]
        BY <2>5, <3>1 DEF Passes
      <3> QED BY <2>2, <3>2 DEF SameMessages, IsPost
    <2> QED BY <2>1, <2>3, <2>4, <2>5 DEF LinkDeletes, SpamWarns, PornJudges, WordActs, Deletes
  <1>2. ASSUME NEW m \in Member, NEW t \in Text, Arrives(m, t)
        PROVE  SameMessages
    <2>1. PICK q : posts' = Append(posts, q)
      BY <1>2 DEF Arrives
    <2>2. posts \in Seq({posts[i] : i \in DOMAIN posts} \cup {q})
      BY SeqMonotonic DEF GInv, Underway, IsSeq
    <2>3. DOMAIN posts \subseteq DOMAIN posts' /\ \A i \in DOMAIN posts : posts'[i] = posts[i]
      BY <2>1, <2>2, AppendProperties
    <2> QED BY <2>3 DEF SameMessages
  <1>3. CASE GroupNext \/ (\E m \in Member : Promote(m)) \/ GuardTick \/ UNCHANGED <<envVars, guardVars>>
    <2>1. UNCHANGED posts
      BY <1>3 DEF GroupNext, Promote, GuardTick, guardVars, Others, SwitchFilter, SwitchWelcome,
             TagAll, TagBatch, Joins, Welcomes, AddWarn, RemoveWarn, ClearWarns
    <2> QED BY <2>1 DEF SameMessages
  <1>4. CASE GuardCrash
    <2>1. posts' = [i \in DOMAIN posts |-> [posts[i] EXCEPT
             !.stage = Len(Stages) + 1, !.at = "done", !.since = 0, !.doom = {}]]
      BY <1>4 DEF GuardCrash
    <2>2. \A i \in DOMAIN posts : IsPost(posts[i])
      BY DEF GInv, Underway
    <2> QED BY <2>1, <2>2 DEF SameMessages, IsPost
  <1> QED BY <1>1, <1>2, <1>3, <1>4 DEF GuardNext

\* A deque holds messages of its sender.
Sorted ==
    /\ DOMAIN tracker = Member
    /\ \A m \in Member : \A e \in tracker[m] : e[2] \in DOMAIN posts /\ posts[e[2]].from = m

LEMMA SortedStep ==
    ASSUME GuardAssumption, GInv, Sorted, [GuardNext]_<<envVars, guardVars>>
    PROVE  Sorted'
  <1>1. SameMessages
    BY MessagesStay
  <1>2. CASE UNCHANGED tracker
    BY <1>1, <1>2 DEF Sorted, SameMessages
  <1>3. CASE GuardCrash
    BY <1>3 DEF GuardCrash, Sorted
  <1>4. ASSUME NEW i \in DOMAIN posts, SpamCounts(i)
        PROVE  Sorted'
    <2>0. PICK w \in Windows(posts[i].from, i) :
            \E left \in SUBSET w : tracker' = [tracker EXCEPT ![posts[i].from] = left]
      BY <1>4 DEF SpamCounts
    <2>1. PICK left \in SUBSET w : tracker' = [tracker EXCEPT ![posts[i].from] = left]
      BY <2>0
    <2>2. posts[i].from \in Member
      BY DEF GInv, Underway, IsPost
    <2>3. \A e \in left : e \in tracker[posts[i].from] \/ e[2] = i
      BY <2>1, WindowHolds DEF InWindow
    <2> QED BY <1>1, <2>1, <2>2, <2>3 DEF Sorted, SameMessages
  <1>5. UNCHANGED tracker \/ GuardCrash \/ \E i \in DOMAIN posts : SpamCounts(i)
    BY DEF GuardNext, WatcherNext, GroupNext, Arrives, Promote, GuardTick, guardVars, Others,
           SwitchFilter, SwitchWelcome, TagAll, TagBatch, Joins, Welcomes, AddWarn, RemoveWarn,
           ClearWarns, Answers, AnswerFails, LinkDeletes, SpamWarns, PornJudges, WordActs
  <1> QED BY <1>2, <1>3, <1>4, <1>5

\* What AdminsSpared says of a step.
Spared ==
    \A d \in doomed' \ doomed : \E i \in DOMAIN posts :
      /\ posts[i].at = "acts" /\ posts[i].from = posts[d].from
      /\ posts[i].since - plainAt[posts[i].from] < CacheTTL

LEMMA DeletesFairly ==
    ASSUME GInv, Sorted, [GuardNext]_<<envVars, guardVars>>
    PROVE  Spared
  <1>1. ASSUME NEW i \in DOMAIN posts, posts[i].at = "acts",
               \A d \in doomed' \ doomed : posts[d].from = posts[i].from
        PROVE  Spared
    BY <1>1 DEF GInv, Underway, Fair, Spared
  <1>2. CASE doomed' \subseteq doomed
    BY <1>2 DEF Spared
  <1>3. ASSUME NEW i \in DOMAIN posts, SpamCounts(i)
        PROVE  Spared
    <2>0. PICK w \in Windows(posts[i].from, i) : \E doom \in SUBSET Ids(w) : doomed' = doomed \cup doom
      <3>1. \A w \in Windows(posts[i].from, i) : Doom(w, posts[i].text) \subseteq Ids(w)
        BY DEF Doom, Ids, Said
      <3> QED BY <1>3, <3>1 DEF SpamCounts
    <2>1. PICK doom \in SUBSET Ids(w) : doomed' = doomed \cup doom
      BY <2>0
    <2>2. posts[i].from \in Member /\ posts[i].at = "acts"
      BY <1>3 DEF GInv, Underway, IsPost, SpamCounts, At
    <2>3. \A e \in w : e \in tracker[posts[i].from] \/ e[2] = i
      BY WindowHolds DEF InWindow
    <2>4. \A d \in doom : posts[d].from = posts[i].from
      BY <2>1, <2>2, <2>3 DEF Sorted, Ids
    <2> QED BY <1>1, <2>1, <2>2, <2>4
  <1>4. ASSUME NEW i \in DOMAIN posts, NEW b \in BOOLEAN,
               LinkDeletes(i) \/ PornJudges(i, b) \/ WordActs(i, b)
        PROVE  Spared
    <2>1. posts[i].at = "acts" /\ doomed' \subseteq doomed \cup {i}
      BY <1>4 DEF LinkDeletes, PornJudges, WordActs, Deletes, At
    <2> QED BY <1>1, <2>1
  <1>5. \/ doomed' \subseteq doomed
        \/ \E i \in DOMAIN posts : SpamCounts(i) \/ \E b \in BOOLEAN :
               LinkDeletes(i) \/ PornJudges(i, b) \/ WordActs(i, b)
    BY DEF GuardNext, WatcherNext, GroupNext, Arrives, Promote, GuardTick, GuardCrash, guardVars, Others,
           History, SwitchFilter, SwitchWelcome, TagAll, TagBatch, Joins, Welcomes, AddWarn, RemoveWarn,
           ClearWarns, Answers, AnswerFails, SpamWarns
  <1> QED BY <1>2, <1>3, <1>4, <1>5

\* Delete is called for a message only by a task of its sender that began to ask about
\* the sender less than CacheTTL after the sender was a plain member, or before, for
\* any number of members, messages, promotions and failures (groupguard.py:104-126).
THEOREM AdminsAreSpared == ASSUME GuardAssumption PROVE GuardSpec => AdminsSpared
  <1>1. EnvInit /\ GuardInit => GInv /\ Sorted
    BY GuardInitInv DEF GuardInit, Sorted
  <1>2. GInv /\ Sorted /\ [GuardNext]_<<envVars, guardVars>> => GInv' /\ Sorted'
    BY GuardStepInv, SortedStep
  <1>3. GInv /\ Sorted /\ [GuardNext]_<<envVars, guardVars>> =>
          [\A d \in doomed' \ doomed : \E i \in DOMAIN posts :
             /\ posts[i].at = "acts" /\ posts[i].from = posts[d].from
             /\ posts[i].since - plainAt[posts[i].from] < CacheTTL]_<<envVars, guardVars>>
    BY DeletesFairly DEF Spared
  <1> QED BY <1>1, <1>2, <1>3, PTL DEF GuardSpec, AdminsSpared

-----------------------------------------------------------------------------
(* The guard: what the spam watcher counted, and did not delete, is within *)
(* the limits.                                                             *)

\* What a deque holds is finite and within the limits.
InLimits(w) ==
    /\ IsFiniteSet(w) /\ Cardinality(w) <= SpamMax
    /\ \A t \in Worded : Cardinality(Said(w, t)) < SpamRepeats

\* What was counted lies in the past, and until it is deleted or too old it is
\* in the deque of its sender.
Remembered ==
    /\ \A h \in heard : h[1] \in DOMAIN posts /\ h[2] \in Int /\ h[2] <= now
    /\ \A h \in heard :
         h[1] \notin doomed /\ now - h[2] <= SpamWindow
           => <<h[2], h[1], posts[h[1]].text>> \in tracker[posts[h[1]].from]

MInv ==
    /\ DOMAIN tracker = Member
    /\ \A m \in Member : InLimits(tracker[m])
    /\ Remembered

\* Each message is the image of an entry: there are no more messages than entries.
LEMMA ImagesAreFewer ==
    ASSUME NEW S, IsFiniteSet(S), NEW K, \A x \in K : \E e \in S : e[2] = x
    PROVE  IsFiniteSet(K) /\ Cardinality(K) <= Cardinality(S)
  <1> DEFINE f == [e \in S |-> e[2]]
             T == {e[2] : e \in S}
  <1>1. f \in Surjection(S, T)
    BY DEF Surjection
  <1>2. IsFiniteSet(T) /\ Cardinality(T) <= Cardinality(S)
    <2> HIDE DEF f, T
    <2> QED BY <1>1, FS_Surjection
  <1>3. K \in SUBSET T
    OBVIOUS
  <1>4. IsFiniteSet(K) /\ Cardinality(K) <= Cardinality(T)
    <2> HIDE DEF T
    <2> QED BY <1>2, <1>3, FS_Subset
  <1>5. Cardinality(K) \in Nat /\ Cardinality(T) \in Nat /\ Cardinality(S) \in Nat
    <2> HIDE DEF T
    <2> QED BY <1>2, <1>4, FS_CardinalityType
  <1> QED BY <1>2, <1>4, <1>5

\* A deque that has room for a flood never drops a message that counts.
LEMMA RoomForAll ==
    ASSUME GuardAssumption, SpamMax < SpamDeque, NEW m \in Member, InLimits(tracker[m]), NEW i
    PROVE  Windows(m, i) = {InWindow(m) \cup {<<now, i, posts[i].text>>}}
  <1>1. InWindow(m) \in SUBSET tracker[m]
    BY DEF InWindow
  <1>2. /\ Cardinality(InWindow(m)) <= Cardinality(tracker[m]) /\ Cardinality(tracker[m]) \in Nat
        /\ Cardinality(InWindow(m)) \in Nat
    BY <1>1, FS_Subset, FS_CardinalityType DEF InLimits
  <1>3. Cardinality(InWindow(m)) < SpamDeque
    BY <1>2 DEF InLimits, GuardAssumption
  <1> QED BY <1>3 DEF Windows

\* Where nothing is counted and the deques stay, what holds of them stays.
LEMMA NothingCounted ==
    ASSUME GuardAssumption, GInv, MInv, SameMessages, doomed \subseteq doomed',
           UNCHANGED <<tracker, heard>>, now' \in Nat, now <= now'
    PROVE  MInv'
  <1>1. now \in Nat /\ SpamWindow \in Nat
    BY DEF GInv, Underway, GuardAssumption
  <1>2. \A m \in Member : InLimits(tracker[m])'
    BY DEF MInv, InLimits, Said
  <1>3. ASSUME NEW h \in heard
        PROVE  /\ h[1] \in DOMAIN posts' /\ h[2] \in Int /\ h[2] <= now'
               /\ h[1] \notin doomed' /\ now' - h[2] <= SpamWindow
                    => <<h[2], h[1], posts'[h[1]].text>> \in tracker[posts'[h[1]].from]
    <2>1. h[1] \in DOMAIN posts /\ h[2] \in Int /\ h[2] <= now
      BY <1>3 DEF MInv, Remembered
    <2>2. h[1] \in DOMAIN posts' /\ h[2] <= now'
      BY <1>1, <2>1 DEF SameMessages
    <2>3. ASSUME h[1] \notin doomed', now' - h[2] <= SpamWindow
          PROVE  <<h[2], h[1], posts'[h[1]].text>> \in tracker[posts'[h[1]].from]
      <3>1. now - h[2] <= SpamWindow
        BY <1>1, <2>1, <2>3
      <3>2. <<h[2], h[1], posts[h[1]].text>> \in tracker[posts[h[1]].from]
        BY <1>3, <2>3, <3>1 DEF MInv, Remembered
      <3> QED BY <2>1, <3>2 DEF SameMessages
    <2> QED BY <2>1, <2>2, <2>3
  <1> QED BY <1>2, <1>3 DEF MInv, Remembered

\* The window with one more message: what is not deleted of it is within the
\* limits.
LEMMA CountsWithinLimits ==
    ASSUME GuardAssumption, NEW old, InLimits(old), NEW e, NEW w,
           w \in SUBSET (old \cup {e}), NEW doom, NEW left,
           left = {x \in w : x[2] \notin doom},
           IsFlood(w) => doom = Ids(w),
           e[3] \in Worded /\ Cardinality(Said(w, e[3])) >= SpamRepeats
             => Ids(Said(w, e[3])) \subseteq doom
    PROVE  InLimits(left)
  <1> USE DEF GuardAssumption
  <1>1. IsFiniteSet(old \cup {e})
    BY FS_AddElement DEF InLimits
  <1>2. IsFiniteSet(w)
    BY <1>1, FS_Subset
  <1>3. Cardinality(w) \in Nat
    BY <1>2, FS_CardinalityType
  <1>4. left \in SUBSET w
    OBVIOUS
  <1>5. IsFiniteSet(left) /\ Cardinality(left) <= Cardinality(w) /\ Cardinality(left) \in Nat
    BY <1>2, <1>4, FS_Subset, FS_CardinalityType
  <1>6. Cardinality({}) = 0
    BY FS_EmptySet
  <1>7. Cardinality(left) <= SpamMax
    <2>1. CASE IsFlood(w)
      <3>1. left = {}
        BY <2>1 DEF Ids
      <3> QED BY SMTT(30), <1>6, <3>1
    <2>2. CASE ~IsFlood(w)
      BY <1>3, <1>5, <2>2 DEF IsFlood
    <2> QED BY <2>1, <2>2
  <1>8. ASSUME NEW t \in Worded
        PROVE  Cardinality(Said(left, t)) < SpamRepeats
    <2>1. CASE t = e[3] /\ Cardinality(Said(w, t)) >= SpamRepeats
      <3>1. ASSUME NEW x \in Said(left, t)
            PROVE  FALSE
        <4>1. x \in w /\ x[3] = e[3] /\ x[2] \notin doom
          BY <2>1, <3>1 DEF Said
        <4>2. x[2] \in Ids(Said(w, e[3]))
          BY <4>1 DEF Said, Ids
        <4>3. Ids(Said(w, e[3])) \subseteq doom
          BY <2>1
        <4> QED BY <4>1, <4>2, <4>3
      <3>2. Said(left, t) = {}
        BY <3>1
      <3>3. Cardinality(Said(left, t)) = 0
        BY <1>6, <3>2, Zenon
      <3> QED BY <3>3
    <2>2. CASE t = e[3] /\ ~(Cardinality(Said(w, t)) >= SpamRepeats)
      <3>1. Said(w, t) \in SUBSET w /\ Said(left, t) \in SUBSET Said(w, t)
        BY <1>4 DEF Said
      <3>2. IsFiniteSet(Said(w, t)) /\ Cardinality(Said(w, t)) \in Nat
        BY <1>2, <3>1, FS_Subset, FS_CardinalityType
      <3>3. Cardinality(Said(left, t)) <= Cardinality(Said(w, t)) /\ Cardinality(Said(left, t)) \in Nat
        BY <3>1, <3>2, FS_Subset, FS_CardinalityType
      <3> QED BY <2>2, <3>2, <3>3
    <2>3. CASE t # e[3]
      <3>1. Said(old, t) \in SUBSET old /\ Said(left, t) \in SUBSET Said(old, t)
        BY <1>4, <2>3 DEF Said
      <3>2. IsFiniteSet(Said(old, t)) /\ Cardinality(Said(old, t)) \in Nat
        BY <3>1, FS_Subset, FS_CardinalityType DEF InLimits
      <3>3. Cardinality(Said(left, t)) <= Cardinality(Said(old, t)) /\ Cardinality(Said(left, t)) \in Nat
        BY <3>1, <3>2, FS_Subset, FS_CardinalityType
      <3> QED BY <3>2, <3>3 DEF InLimits
    <2> QED BY <2>1, <2>2, <2>3
  <1> QED BY <1>5, <1>7, <1>8 DEF InLimits

\* The watchers that count nothing, the group, the owner, and time.
LEMMA OthersKeepLimits ==
    ASSUME GuardAssumption, GInv, MInv, [GuardNext]_<<envVars, guardVars>>, ~GuardCrash,
           \A i \in DOMAIN posts : ~SpamCounts(i)
    PROVE  MInv'
  <1>1. now \in Nat
    BY DEF GInv, Underway
  <1>2. SameMessages
    BY MessagesStay
  <1>3. UNCHANGED <<tracker, heard>> /\ doomed \subseteq doomed'
    BY DEF GuardNext, WatcherNext, GroupNext, Arrives, Promote, GuardTick, guardVars, Others, History,
           SwitchFilter, SwitchWelcome, TagAll, TagBatch, Joins, Welcomes, AddWarn, RemoveWarn,
           ClearWarns, Answers, AnswerFails, LinkDeletes, SpamWarns, PornJudges, WordActs, Deletes, Quiet
  <1>4. now' = now \/ now' = now + 1
    BY DEF GuardNext, WatcherNext, GroupNext, Arrives, Promote, GuardTick, Advance, Ordered, Calm, Fault,
           envVars, SwitchFilter, SwitchWelcome, TagAll, TagBatch, Joins, Welcomes, AddWarn, RemoveWarn,
           ClearWarns, Answers, AnswerFails, LinkDeletes, SpamCounts, SpamWarns, PornJudges, WordActs
  <1> QED BY <1>1, <1>2, <1>3, <1>4, NothingCounted

\* The spam watcher counts a message: what is then over a limit is deleted, and
\* leaves the deque as it joins the deleted.
LEMMA CountingKeepsLimits ==
    ASSUME GuardAssumption, SpamMax < SpamDeque, GInv, MInv, NEW i \in DOMAIN posts, SpamCounts(i)
    PROVE  MInv'
  <1> DEFINE p == posts[i]
             w == InWindow(p.from) \cup {<<now, i, p.text>>}
             repeated == p.text \in Worded /\ Cardinality(Said(w, p.text)) >= SpamRepeats
             doom == IF IsFlood(w) THEN Ids(w) ELSE IF repeated THEN Ids(Said(w, p.text)) ELSE {}
             new == <<now, i, p.text>>
             left == {e \in w : e[2] \notin doom}
  <1>1. now \in Nat /\ SpamWindow \in Nat /\ IsPost(p) /\ p.from \in Member
    BY DEF GInv, Underway, IsPost, GuardAssumption
  <1>2. /\ tracker' = [tracker EXCEPT ![p.from] = left]
        /\ posts' = [posts EXCEPT ![i] = IF doom = {} THEN Onward(p, p.stage + 1)
                                          ELSE [p EXCEPT !.at = "deletes", !.since = now, !.doom = doom]]
        /\ doomed' = doomed \cup doom
        /\ heard' = heard \cup {<<i, now>>} /\ now' = now
    <2>1. Windows(p.from, i) = {w}
      BY <1>1, RoomForAll DEF MInv
    <2>2. doom = Doom(w, p.text)
      BY DEF Doom
    <2> HIDE DEF w, doom
    <2> QED BY <2>1, <2>2 DEF SpamCounts, Calm, envVars
  <1>3. w = {e \in tracker[p.from] : now - e[1] <= SpamWindow} \cup {new}
    BY DEF InWindow
  <1>4. InLimits(left)
    <2>1. InLimits(tracker[p.from]) /\ w \in SUBSET (tracker[p.from] \cup {new}) /\ new[3] = p.text
      BY <1>1, <1>3 DEF MInv
    <2>2. IsFlood(w) => doom = Ids(w)
      OBVIOUS
    <2>3. p.text \in Worded /\ Cardinality(Said(w, p.text)) >= SpamRepeats
            => Ids(Said(w, p.text)) \subseteq doom
      <3>1. CASE IsFlood(w)
        BY <3>1 DEF Ids, Said
      <3>2. CASE ~IsFlood(w)
        BY <3>2
      <3> QED BY <3>1, <3>2
    <2>4. left = {e \in w : e[2] \notin doom}
      OBVIOUS
    <2> HIDE DEF w, new, doom, left
    <2> QED BY <2>1, <2>2, <2>3, <2>4, CountsWithinLimits
  <1>5. \A m \in Member : InLimits(tracker[m])'
    <2> HIDE DEF left, doom
    <2>1. ASSUME NEW m \in Member PROVE InLimits(tracker'[m])
      <3>1. tracker'[m] = IF m = p.from THEN left ELSE tracker[m]
        BY <1>2, <2>1 DEF MInv
      <3> QED BY <1>4, <2>1, <3>1 DEF MInv
    <2> QED BY <2>1 DEF InLimits, Said
  <1>6. SameMessages
    BY MessagesStay DEF GuardNext, WatcherNext
  <1>7. ASSUME NEW h \in heard'
        PROVE  /\ h[1] \in DOMAIN posts' /\ h[2] \in Int /\ h[2] <= now'
               /\ h[1] \notin doomed' /\ now' - h[2] <= SpamWindow
                    => <<h[2], h[1], posts'[h[1]].text>> \in tracker'[posts'[h[1]].from]
    <2> DEFINE y == <<h[2], h[1], posts[h[1]].text>>
               from == posts[h[1]].from
    <2>1. h \in heard \/ h = <<i, now>>
      BY <1>2, <1>7
    <2>2. h[1] \in DOMAIN posts /\ h[2] \in Int /\ h[2] <= now
      BY <1>1, <2>1 DEF MInv, Remembered
    <2>3. h[1] \in DOMAIN posts' /\ posts'[h[1]].text = posts[h[1]].text /\ posts'[h[1]].from = from
      BY <1>6, <2>2 DEF SameMessages
    <2>4. ASSUME h[1] \notin doomed', now - h[2] <= SpamWindow
          PROVE  y \in tracker'[from]
      <3>1. h[1] \notin doom /\ h[1] \notin doomed
        <4> HIDE DEF doom
        <4> QED BY <1>2, <2>4
      <3>2. CASE h = <<i, now>>
        <4>1. y = new /\ from = p.from
          BY <3>2
        <4>2. y \in left
          BY <1>3, <3>1, <4>1
        <4> HIDE DEF left, y
        <4> QED BY <1>1, <1>2, <4>1, <4>2 DEF MInv
      <3>3. CASE h \in heard
        <4>1. y \in tracker[from]
          BY <2>4, <3>1, <3>3 DEF MInv, Remembered
        <4>2. CASE from # p.from
          <5> HIDE DEF left, y, from
          <5> QED BY <1>1, <1>2, <4>1, <4>2 DEF MInv
        <4>3. CASE from = p.from
          <5>1. y \in w /\ y[2] = h[1]
            BY <1>3, <2>4, <4>1, <4>3
          <5>2. y \in left
            BY <3>1, <5>1
          <5> HIDE DEF left, y, from
          <5> QED BY <1>1, <1>2, <4>3, <5>2 DEF MInv
        <4> QED BY <4>2, <4>3
      <3> QED BY <2>1, <3>2, <3>3
    <2> QED BY <1>2, <2>2, <2>3, <2>4
  <1> QED BY <1>2, <1>5, <1>7 DEF MInv, Remembered

\* An empty deque is within the limits.
LEMMA EmptyInLimits ==
    ASSUME GuardAssumption
    PROVE  InLimits({})
  <1>1. \A t \in Worded : Said({}, t) = {}
    BY DEF Said
  <1> QED BY <1>1, FS_EmptySet DEF InLimits, GuardAssumption

\* A process that dies has counted nothing, and starts with empty deques.
LEMMA LimitsStep ==
    ASSUME GuardAssumption, SpamMax < SpamDeque, GInv, MInv, [GuardNext]_<<envVars, guardVars>>
    PROVE  MInv'
  <1>1. CASE GuardCrash
    <2>1. tracker' = [m \in Member |-> {}] /\ heard' = {}
      BY <1>1 DEF GuardCrash
    <2>2. \A m \in Member : InLimits(tracker[m])'
      BY <2>1, EmptyInLimits DEF InLimits, Said
    <2> QED BY <2>1, <2>2 DEF MInv, Remembered
  <1>2. CASE \E i \in DOMAIN posts : SpamCounts(i)
    BY <1>2, CountingKeepsLimits
  <1> QED BY <1>1, <1>2, OthersKeepLimits

\* Within the limits of the deques is what was counted and not deleted.
LEMMA LimitsSuffice ==
    ASSUME GuardAssumption, MInv
    PROVE  SpamCaught
  <1> SUFFICES ASSUME SpamMax < SpamDeque, NEW m \in Member
               PROVE  LET live == {h[1] : h \in {h \in heard : posts[h[1]].from = m
                                                               /\ now - h[2] <= SpamWindow}} \ doomed
                      IN  /\ Cardinality(live) <= SpamMax
                          /\ \A t \in Worded :
                               Cardinality({i \in live : posts[i].text = t}) < SpamRepeats
    BY DEF SpamCaught
  <1> DEFINE counted == {h \in heard : posts[h[1]].from = m /\ now - h[2] <= SpamWindow}
             live == {h[1] : h \in counted} \ doomed
  <1>1. InLimits(tracker[m])
    BY DEF MInv
  <1>2. ASSUME NEW i \in live
        PROVE  \E e \in tracker[m] : e[2] = i /\ e[3] = posts[i].text
    <2>1. PICK h \in counted : i = h[1] /\ i \notin doomed
      OBVIOUS
    <2>2. <<h[2], i, posts[i].text>> \in tracker[m]
      BY <2>1 DEF MInv, Remembered
    <2> QED BY <2>2
  <1> HIDE DEF live
  <1>3. IsFiniteSet(tracker[m]) /\ Cardinality(tracker[m]) \in Nat
    BY <1>1, FS_CardinalityType DEF InLimits
  <1>4. Cardinality(live) <= SpamMax
    <2>1. IsFiniteSet(live) /\ Cardinality(live) <= Cardinality(tracker[m])
      BY <1>2, <1>3, ImagesAreFewer
    <2>2. Cardinality(live) \in Nat
      BY <2>1, FS_CardinalityType
    <2> QED BY <1>1, <1>3, <2>1, <2>2 DEF InLimits, GuardAssumption
  <1>5. ASSUME NEW t \in Worded
        PROVE  Cardinality({i \in live : posts[i].text = t}) < SpamRepeats
    <2> DEFINE K == {i \in live : posts[i].text = t}
               S == Said(tracker[m], t)
    <2>1. S \in SUBSET tracker[m]
      BY DEF Said
    <2>2. IsFiniteSet(S) /\ Cardinality(S) \in Nat
      <3> HIDE DEF S
      <3> QED BY <1>3, <2>1, FS_Subset, FS_CardinalityType
    <2>3. \A i \in K : \E e \in S : e[2] = i
      BY <1>2 DEF Said
    <2>4. Cardinality(S) < SpamRepeats
      BY <1>1 DEF InLimits
    <2> HIDE DEF K, S
    <2>5. IsFiniteSet(K) /\ Cardinality(K) <= Cardinality(S)
      BY <2>2, <2>3, ImagesAreFewer
    <2>6. Cardinality(K) \in Nat
      BY <2>5, FS_CardinalityType
    <2>7. Cardinality(K) < SpamRepeats
      BY <2>2, <2>4, <2>5, <2>6 DEF GuardAssumption
    <2> QED BY <2>7 DEF K
  <1> QED BY <1>4, <1>5 DEF live

\* If a flood fits into a deque: of what the spam watcher counted in any window of a
\* sender, there are no more than SpamMax messages, and fewer than SpamRepeats of one
\* text, that no delete was called for, for any number of messages, members,
\* promotions, commands and restarts (groupguard.py:586-626).
THEOREM SpamIsCaught == ASSUME GuardAssumption PROVE GuardSpec => []SpamCaught
  <1> DEFINE Limited == SpamMax < SpamDeque => MInv
  <1>1. EnvInit /\ GuardInit => GInv /\ Limited
    BY GuardInitInv, EmptyInLimits DEF GuardInit, MInv, Remembered
  <1>2. GInv /\ Limited /\ [GuardNext]_<<envVars, guardVars>> => GInv' /\ Limited'
    BY GuardStepInv, LimitsStep
  <1>3. Limited => SpamCaught
    BY LimitsSuffice DEF SpamCaught
  <1> QED BY <1>1, <1>2, <1>3, PTL DEF GuardSpec

-----------------------------------------------------------------------------
(* The engines: what a message has read is due, and stays due until its    *)
(* turn, whatever becomes of the rule.                                     *)

RulesNext ==
    \/ \E e \in Engines, r \in RuleId :
         \/ DeleteRule(e, r)
         \/ \E s \in Shape : CreateRule(e, r, s)
         \/ \E b \in BOOLEAN : ToggleRule(e, r, b)
    \/ \E b \in BOOLEAN : SwitchNotifications(b)
    \/ \E k \in {"word", "talk"} : MessageComes(k)
    \/ \E m \in DOMAIN incoming : ReadRules(m) \/ ReadFails(m) \/ RunRule(m) \/ RuleFails(m)
    \/ RulesCrash

RulesSpec == EnvInit /\ RulesInit /\ [][RulesNext]_<<envVars, rulesVars>>

-----------------------------------------------------------------------------
\* The tables hold rules; a rule last went off among the messages that had come.
Ruled ==
    /\ DOMAIN rules = Engines
    /\ \A e \in Engines : /\ rules[e] \in [DOMAIN rules[e] -> Shape]
                          /\ DOMAIN rules[e] \subseteq RuleId
    /\ notifying \in BOOLEAN
    /\ offAt \in [Engines -> [RuleId -> Nat]]
    /\ \A e \in Engines, r \in RuleId : offAt[e][r] <= Len(incoming)

\* A message, in an engine until it has passed the second.
IsMessage(p) ==
    /\ DOMAIN p = {"kind", "in", "at", "left"}
    /\ p.in \in 1..3 /\ p.at \in {"read", "run", "done", "lost"}
    /\ p.at \in {"read", "run"} => p.in \in 1..2
    /\ (p.at = "run") = (p.left # {})

Mail == {incoming[m] : m \in DOMAIN incoming}

Delivered == incoming \in Seq(Mail) /\ \A m \in DOMAIN incoming : IsMessage(incoming[m])

\* The rule `r` of engine `e` is still to have its turn with the message `p`.
Awaits(p, e, r) == p.at = "run" /\ e = Engine[p.in] /\ \E c \in p.left : c.id = r

Was(t) == t[1] <= offAt[t[2]][t[3]] \/ (t[3] \in DOMAIN rules[t[2]] /\ rules[t[2]][t[3]].on)

\* What was read was enabled since its message came; and it has had its turn, or
\* awaits it, or the message was lost with the process.
InTurn ==
    /\ due \subseteq (DOMAIN incoming) \X Engines \X RuleId
    /\ ran \subseteq due
    /\ \A t \in due : Was(t)
    /\ \A t \in due : t \in ran \/ incoming[t[1]].at = "lost" \/ Awaits(incoming[t[1]], t[2], t[3])
    /\ \A m \in DOMAIN incoming : \A c \in incoming[m].left : <<m, Inside(m), c.id>> \in due

RInv == Ruled /\ Delivered /\ InTurn

-----------------------------------------------------------------------------
LEMMA RulesHold == RInv => RulesHaveTheirTurn
  <1> SUFFICES ASSUME RInv PROVE RulesHaveTheirTurn
    OBVIOUS
  <1>1. ASSUME NEW t \in ran
        PROVE  t[1] <= offAt[t[2]][t[3]] \/ (t[3] \in DOMAIN rules[t[2]] /\ rules[t[2]][t[3]].on)
    BY <1>1 DEF RInv, InTurn, Was
  <1>2. ASSUME NEW t \in due, incoming[t[1]].at = "done"
        PROVE  t \in ran
    BY <1>2 DEF RInv, InTurn, Awaits
  <1> QED BY <1>1, <1>2 DEF RulesHaveTheirTurn

\* A sequence is one of its own elements.
LEMMA MailIsSeq ==
    ASSUME NEW W, incoming' \in Seq(W)
    PROVE  incoming' \in Seq(Mail')
  <1>1. PICK n \in Nat : incoming' \in [1..n -> W]
    BY SeqDef
  <1>2. incoming' \in [1..n -> Mail']
    BY <1>1 DEF Mail
  <1> QED BY <1>2, SeqDef

LEMMA RulesInitInv == RulesInit => RInv
  <1> SUFFICES ASSUME RulesInit PROVE RInv
    OBVIOUS
  <1> DEFINE First == {[on |-> TRUE, trigger |-> "any", act |-> "send"],
                       [on |-> TRUE, trigger |-> "word", act |-> "row"]}
  <1>1. First \subseteq Shape
    BY DEF Shape, Trigger, Act
  <1>2. rules \in [Engines -> UNION {[S -> First] : S \in SUBSET RuleId}]
    BY DEF RulesInit
  <1> HIDE DEF First
  <1>3. ASSUME NEW e \in Engines
        PROVE  rules[e] \in [DOMAIN rules[e] -> Shape] /\ DOMAIN rules[e] \subseteq RuleId
    <2>1. PICK S \in SUBSET RuleId : rules[e] \in [S -> First]
      BY <1>2
    <2> QED BY <1>1, <2>1
  <1>4. incoming = <<>> /\ Len(incoming) = 0 /\ DOMAIN incoming = {} /\ incoming \in Seq(Mail)
    BY EmptySeq DEF RulesInit
  <1>5. Ruled
    BY <1>2, <1>3, <1>4 DEF Ruled, RulesInit
  <1>6. Delivered /\ InTurn
    BY <1>4 DEF Delivered, InTurn, RulesInit
  <1> QED BY <1>5, <1>6 DEF RInv

\* The owner's commands: no message moves, and a rule that goes off goes off at
\* the last message that has come.
LEMMA RuleCommandInv ==
    ASSUME RInv, NEW e \in Engines, NEW r \in RuleId,
           \/ DeleteRule(e, r)
           \/ \E s \in Shape : CreateRule(e, r, s)
           \/ \E b \in BOOLEAN : ToggleRule(e, r, b)
    PROVE  RInv'
  <1> USE DEF RInv
  <1>1. UNCHANGED <<notifying, incoming, inbox, ran, due>>
    BY DEF DeleteRule, CreateRule, ToggleRule, Keep
  <1>2. Len(incoming) \in Nat /\ \A m \in DOMAIN incoming : m \in Nat /\ m <= Len(incoming)
    BY DEF Delivered
  <1>3. PICK tab : /\ rules' = [rules EXCEPT ![e] = tab]
                   /\ tab \in [DOMAIN tab -> Shape] /\ DOMAIN tab \subseteq RuleId
                   /\ \A x \in RuleId \ {r} :
                        x \in DOMAIN rules[e] => x \in DOMAIN tab /\ tab[x] = rules[e][x]
                   /\ \/ /\ offAt' = offAt
                         /\ r \in DOMAIN rules[e] /\ rules[e][r].on => r \in DOMAIN tab /\ tab[r].on
                      \/ r \in DOMAIN rules[e] /\ Goes(e, r)
    <2>0. rules[e] \in [DOMAIN rules[e] -> Shape] /\ DOMAIN rules[e] \subseteq RuleId
      BY DEF Ruled
    <2>1. CASE DeleteRule(e, r)
      <3> DEFINE tab == [x \in DOMAIN rules[e] \ {r} |-> rules[e][x]]
      <3>1. rules' = [rules EXCEPT ![e] = tab] /\ r \in DOMAIN rules[e] /\ Goes(e, r)
        BY <2>1 DEF DeleteRule, Ruled
      <3>2. tab \in [DOMAIN tab -> Shape] /\ DOMAIN tab \subseteq RuleId
        BY <2>0
      <3> QED BY <3>1, <3>2
    <2>2. CASE \E s \in Shape : CreateRule(e, r, s)
      <3>1. PICK s \in Shape : CreateRule(e, r, s)
        BY <2>2
      <3> DEFINE tab == [x \in DOMAIN rules[e] \cup {r} |-> IF x = r THEN s ELSE rules[e][x]]
      <3>2. rules' = [rules EXCEPT ![e] = tab] /\ r \notin DOMAIN rules[e] /\ offAt' = offAt
        BY <3>1 DEF CreateRule, Ruled
      <3>3. tab \in [DOMAIN tab -> Shape] /\ DOMAIN tab \subseteq RuleId
        BY <2>0
      <3>4. \A x \in RuleId \ {r} : x \in DOMAIN rules[e] => x \in DOMAIN tab /\ tab[x] = rules[e][x]
        OBVIOUS
      <3> HIDE DEF tab
      <3> QED BY <3>2, <3>3, <3>4
    <2>3. CASE \E b \in BOOLEAN : ToggleRule(e, r, b)
      <3>1. PICK b \in BOOLEAN : ToggleRule(e, r, b)
        BY <2>3
      <3> DEFINE tab == [rules[e] EXCEPT ![r].on = b]
      <3>2. rules' = [rules EXCEPT ![e] = tab] /\ r \in DOMAIN rules[e]
        BY <3>1 DEF ToggleRule, Ruled
      <3>3. rules[e][r] \in Shape
        BY <2>0, <3>2
      <3>4. PICK y : y = [rules[e][r] EXCEPT !.on = b]
        OBVIOUS
      <3>5. y \in Shape /\ y.on = b
        BY <3>3, <3>4 DEF Shape
      <3>6. tab = [rules[e] EXCEPT ![r] = y]
        BY <3>4
      <3>7. tab \in [DOMAIN tab -> Shape] /\ DOMAIN tab = DOMAIN rules[e] /\ tab[r] = y
        BY <2>0, <3>2, <3>5, <3>6
      <3>8. \A x \in RuleId \ {r} : x \in DOMAIN rules[e] => x \in DOMAIN tab /\ tab[x] = rules[e][x]
        BY <2>0, <3>6
      <3>9. \/ offAt' = offAt /\ tab[r].on
            \/ Goes(e, r)
        <4>1. CASE b = TRUE
          BY <3>1, <3>5, <3>7, <4>1 DEF ToggleRule
        <4>2. CASE b = FALSE
          BY <3>1, <4>2 DEF ToggleRule
        <4> QED BY <4>1, <4>2
      <3> HIDE DEF tab
      <3> QED BY <2>0, <3>2, <3>7, <3>8, <3>9
    <2> QED BY <2>1, <2>2, <2>3
  <1>4. /\ offAt' \in [Engines -> [RuleId -> Nat]]
        /\ \A f \in Engines, x \in RuleId : offAt'[f][x] <= Len(incoming)
        /\ \A f \in Engines, x \in RuleId : f # e \/ x # r => offAt'[f][x] = offAt[f][x]
    <2>1. CASE offAt' = offAt
      BY <2>1 DEF Ruled
    <2>2. CASE Goes(e, r)
      <3>0. PICK n : n = IF rules[e][r].on THEN Len(incoming) ELSE offAt[e][r]
        OBVIOUS
      <3>1. n \in Nat /\ n <= Len(incoming)
        <4>1. offAt[e][r] \in Nat /\ offAt[e][r] <= Len(incoming)
          BY DEF Ruled
        <4>2. n = Len(incoming) \/ n = offAt[e][r]
          BY <3>0, Zenon
        <4> QED BY <1>2, <4>1, <4>2
      <3>2. offAt' = [offAt EXCEPT ![e][r] = n]
        BY <2>2, <3>0 DEF Goes
      <3> QED BY <1>2, <3>1, <3>2 DEF Ruled
    <2> QED BY <1>3, <2>1, <2>2
  <1>5. ASSUME NEW t \in due
        PROVE  Was(t)'
    <2>1. t[1] \in DOMAIN incoming /\ t[2] \in Engines /\ t[3] \in RuleId /\ Was(t)
      BY DEF InTurn
    <2>2. CASE t[2] # e
      <3>1. rules'[t[2]] = rules[t[2]] /\ offAt'[t[2]][t[3]] = offAt[t[2]][t[3]]
        BY <1>3, <1>4, <2>1, <2>2 DEF Ruled
      <3> QED BY <2>1, <3>1 DEF Was
    <2>3. CASE t[2] = e /\ t[3] # r
      <3>1. offAt'[t[2]][t[3]] = offAt[t[2]][t[3]]
        BY <1>4, <2>1, <2>3
      <3>2. rules'[e] = tab
        BY <1>3 DEF Ruled
      <3>3. t[3] \in DOMAIN rules[e] => t[3] \in DOMAIN tab /\ tab[t[3]] = rules[e][t[3]]
        BY <1>3, <2>1, <2>3
      <3> QED BY <2>1, <2>3, <3>1, <3>2, <3>3 DEF Was
    <2>4. CASE t[2] = e /\ t[3] = r
      <3>1. rules'[e] = tab
        BY <1>3 DEF Ruled
      <3>2. CASE offAt' = offAt /\ (r \in DOMAIN rules[e] /\ rules[e][r].on => r \in DOMAIN tab /\ tab[r].on)
        BY <2>1, <2>4, <3>1, <3>2 DEF Was
      <3>3. CASE r \in DOMAIN rules[e] /\ Goes(e, r)
        <4>1. CASE rules[e][r].on
          <5>1. offAt'[e][r] = Len(incoming)
            BY <3>3, <4>1 DEF Goes, Ruled
          <5> QED BY <1>2, <2>1, <2>4, <5>1 DEF Was
        <4>2. CASE ~rules[e][r].on
          <5>1. offAt'[e][r] = offAt[e][r]
            BY <3>3, <4>2 DEF Goes, Ruled
          <5>2. t[1] <= offAt[e][r]
            BY <2>1, <2>4, <4>2 DEF Was
          <5> QED BY <2>4, <5>1, <5>2 DEF Was
        <4> QED BY <4>1, <4>2
      <3> QED BY <1>3, <3>2, <3>3
    <2> QED BY <2>2, <2>3, <2>4
  <1>6. Ruled'
    <2>1. DOMAIN rules' = Engines
      BY <1>3 DEF Ruled
    <2>2. ASSUME NEW f \in Engines
          PROVE  rules'[f] \in [DOMAIN rules'[f] -> Shape] /\ DOMAIN rules'[f] \subseteq RuleId
      BY <1>3 DEF Ruled
    <2> QED BY <1>1, <1>4, <2>1, <2>2 DEF Ruled
  <1>7. Delivered' /\ InTurn'
    BY <1>1, <1>5 DEF Delivered, Mail, InTurn, IsMessage, Inside
  <1> QED BY <1>6, <1>7

\* A message joins the others.
LEMMA MessageComesInv ==
    ASSUME RInv, NEW k \in {"word", "talk"}, MessageComes(k)
    PROVE  RInv'
  <1> USE DEF RInv
  <1> DEFINE p == [kind |-> k, in |-> IF notifying THEN 1 ELSE 2, at |-> "read", left |-> {}]
  <1>1. incoming' = Append(incoming, p) /\ UNCHANGED <<rules, notifying, offAt, ran, due>>
    BY DEF MessageComes, Still
  <1>2. IsMessage(p)
    <2>1. (IF notifying THEN 1 ELSE 2) \in 1..2
      OBVIOUS
    <2> QED BY <2>1 DEF IsMessage
  <1> HIDE DEF p
  <1> DEFINE W == Mail \cup {p}
  <1>3. incoming \in Seq(W)
    BY SeqMonotonic DEF Delivered
  <1>4. /\ incoming' \in Seq(W) /\ Len(incoming') = Len(incoming) + 1
        /\ \A i \in 1..Len(incoming) : incoming'[i] = incoming[i]
        /\ incoming'[Len(incoming) + 1] = p
    BY <1>1, <1>3, AppendProperties
  <1>5. Len(incoming) \in Nat /\ DOMAIN incoming = 1..Len(incoming) /\ DOMAIN incoming' = 1..Len(incoming')
    BY <1>3, <1>4
  <1>6. incoming' \in Seq(Mail')
    BY <1>4, MailIsSeq
  <1>7. \A m \in DOMAIN incoming' : IsMessage(incoming'[m])
    BY <1>2, <1>4, <1>5 DEF Delivered
  <1>8. Delivered'
    BY <1>6, <1>7 DEF Delivered, IsMessage
  <1>9. Ruled'
    BY <1>1, <1>4, <1>5 DEF Ruled
  <1>10. InTurn'
    <2>1. due \subseteq (DOMAIN incoming') \X Engines \X RuleId
      BY <1>4, <1>5 DEF InTurn
    <2>2. ASSUME NEW t \in due
          PROVE  /\ Was(t)'
                 /\ t \in ran \/ incoming'[t[1]].at = "lost" \/ Awaits(incoming'[t[1]], t[2], t[3])
      <3>1. t[1] \in 1..Len(incoming)
        BY <1>5 DEF InTurn
      <3> QED BY <1>1, <1>4, <3>1 DEF InTurn, Was
    <2>3. ASSUME NEW m \in DOMAIN incoming', NEW c \in incoming'[m].left
          PROVE  <<m, Engine[incoming'[m].in], c.id>> \in due
      <3>1. CASE m \in 1..Len(incoming)
        BY <1>4, <1>5, <2>3, <3>1 DEF InTurn, Inside
      <3>2. CASE m = Len(incoming) + 1
        <4>1. incoming'[m].left = {}
          BY <1>4, <3>2 DEF p
        <4> QED BY <2>3, <4>1
      <3> QED BY <1>4, <1>5, <2>3, <3>1, <3>2
    <2> QED BY <1>1, <2>1, <2>2, <2>3 DEF InTurn, Inside, Awaits
  <1> QED BY <1>8, <1>9, <1>10

\* One message moves: nothing that is due to it is forgotten, and whatever it has
\* left is due.
LEMMA OneMessage ==
    ASSUME RInv, NEW m \in DOMAIN incoming, NEW q, IsMessage(q),
           incoming' = [incoming EXCEPT ![m] = q], UNCHANGED <<rules, notifying, offAt>>,
           due' \subseteq (DOMAIN incoming) \X Engines \X RuleId, due \subseteq due',
           ran \subseteq ran', ran' \subseteq due',
           \A t \in due' \ due : t[1] = m /\ Was(t),
           \A t \in due' : t[1] = m => t \in ran' \/ q.at = "lost" \/ Awaits(q, t[2], t[3]),
           \A c \in q.left : <<m, Engine[q.in], c.id>> \in due'
    PROVE  RInv'
  <1> USE DEF RInv
  <1>1. /\ DOMAIN incoming' = DOMAIN incoming /\ incoming'[m] = q
        /\ \A i \in DOMAIN incoming : i # m => incoming'[i] = incoming[i]
    BY DEF Delivered
  <1>2. incoming' \in Seq(Mail \cup {q}) /\ Len(incoming') = Len(incoming)
    <2>1. incoming \in Seq(Mail \cup {q})
      BY SeqMonotonic DEF Delivered
    <2> QED BY <2>1
  <1>3. Delivered'
    <2>1. incoming' \in Seq(Mail')
      BY <1>2, MailIsSeq
    <2> QED BY <1>1, <2>1 DEF Delivered, IsMessage
  <1>4. Ruled'
    BY <1>2 DEF Ruled
  <1>5. ASSUME NEW t \in due'
        PROVE  /\ Was(t)'
               /\ t \in ran' \/ incoming'[t[1]].at = "lost" \/ Awaits(incoming'[t[1]], t[2], t[3])
    <2>1. t[1] \in DOMAIN incoming
      OBVIOUS
    <2>2. Was(t)'
      BY DEF InTurn, Was
    <2>3. CASE t[1] = m
      BY <1>1, <2>2, <2>3
    <2>4. CASE t[1] # m
      BY <1>1, <2>1, <2>2, <2>4 DEF InTurn
    <2> QED BY <2>3, <2>4
  <1>6. ASSUME NEW i \in DOMAIN incoming', NEW c \in incoming'[i].left
        PROVE  <<i, Engine[incoming'[i].in], c.id>> \in due'
    BY <1>1, <1>6 DEF InTurn, Inside
  <1>7. InTurn'
    BY <1>1, <1>5, <1>6 DEF InTurn, Inside, Awaits
  <1> QED BY <1>3, <1>4, <1>7

\* A message that leaves an engine has nothing left there.
LEMMA LeavesClean ==
    ASSUME NEW p, IsMessage(p), p.in \in 1..2
    PROVE  IsMessage(Leave(p)) /\ Leave(p).left = {}
  <1>1. PICK q : q = Leave(p)
    OBVIOUS
  <1>2. /\ DOMAIN q = {"kind", "in", "at", "left"} /\ q.in = p.in + 1 /\ q.left = {}
        /\ q.at = IF p.in = 1 THEN "read" ELSE "done"
    BY <1>1 DEF Leave, IsMessage
  <1> QED BY <1>1, <1>2 DEF IsMessage

\* The rules are read, or the query fails.
LEMMA ReadInv ==
    ASSUME RInv, NEW m \in DOMAIN incoming, ReadRules(m) \/ ReadFails(m)
    PROVE  RInv'
  <1> USE DEF RInv
  <1> DEFINE p == incoming[m]
             e == Inside(m)
  <1>1. IsMessage(p) /\ p.at = "read" /\ p.in \in 1..2 /\ p.left = {}
    BY DEF Delivered, IsMessage, ReadRules, ReadFails
  <1>2. e \in Engines /\ UNCHANGED <<rules, notifying, offAt, ran>>
    <2>1. UNCHANGED <<rules, notifying, offAt, ran>>
      BY DEF ReadRules, ReadFails, Still
    <2>2. p.in = 1 \/ p.in = 2
      BY <1>1
    <2>3. e \in Engines
      BY <2>2 DEF Inside, Engine, Engines
    <2> QED BY <2>1, <2>3
  <1>3. m \in Nat /\ m <= Len(incoming)
    BY DEF Delivered
  \* what was due to it has had its turn
  <1>4. \A t \in due : t[1] = m => t \in ran
    BY <1>1 DEF InTurn, Awaits
  <1>5. PICK mine, q :
           /\ mine \subseteq Enabled(e)
           /\ incoming' = [incoming EXCEPT ![m] = q]
           /\ due' = due \cup {<<m, e, r>> : r \in mine}
           /\ IF mine = {} THEN q = Leave(p)
              ELSE q = [p EXCEPT !.at = "run", !.left = {[id |-> r, rule |-> rules[e][r]] : r \in mine}]
    <2>1. CASE ReadRules(m)
      <3> DEFINE mine == {r \in Enabled(e) : Matches(rules[e][r], p.kind) /\ rules[e][r].act # "none"}
                 q == IF mine = {} THEN Leave(p)
                      ELSE [p EXCEPT !.at = "run", !.left = {[id |-> r, rule |-> rules[e][r]] : r \in mine}]
      <3>1. incoming' = [incoming EXCEPT ![m] = q] /\ due' = due \cup {<<m, e, r>> : r \in mine}
        BY <2>1 DEF ReadRules
      <3>2. mine \in SUBSET Enabled(e)
        OBVIOUS
      <3>3. IF mine = {} THEN q = Leave(p)
            ELSE q = [p EXCEPT !.at = "run", !.left = {[id |-> r, rule |-> rules[e][r]] : r \in mine}]
        OBVIOUS
      <3> HIDE DEF mine, q
      <3> QED BY <3>1, <3>2, <3>3
    <2>2. CASE ReadFails(m)
      <3>1. incoming' = [incoming EXCEPT ![m] = Leave(p)] /\ due' = due \cup {<<m, e, r>> : r \in {}}
        BY <2>2 DEF ReadFails
      <3> QED BY <3>1
    <2> QED BY <2>1, <2>2
  <1>6. \A r \in mine : r \in RuleId /\ r \in DOMAIN rules[e] /\ rules[e][r].on
    BY <1>2, <1>5 DEF Enabled, Ruled
  <1>7. ASSUME mine = {}
        PROVE  IsMessage(q) /\ q.left = {}
    BY <1>1, <1>5, <1>7, LeavesClean
  <1>8. ASSUME mine # {}
        PROVE  /\ IsMessage(q) /\ q.at = "run" /\ q.in = p.in
               /\ \A c \in q.left : c.id \in mine
               /\ \A r \in mine : \E c \in q.left : c.id = r
    <2>1. /\ DOMAIN q = {"kind", "in", "at", "left"} /\ q.in = p.in /\ q.at = "run"
          /\ q.left = {[id |-> r, rule |-> rules[e][r]] : r \in mine}
      BY <1>1, <1>5, <1>8 DEF IsMessage
    <2>2. \A c \in q.left : c.id \in mine
      BY <2>1
    <2>3. \A r \in mine : \E c \in q.left : c.id = r
      <3>1. ASSUME NEW r \in mine
            PROVE  \E c \in q.left : c.id = r
        <4>1. [id |-> r, rule |-> rules[e][r]] \in q.left
          BY <2>1
        <4> QED BY <4>1
      <3> QED BY <3>1
    <2>4. q.left # {}
      BY <1>8, <2>3
    <2> QED BY <1>1, <2>1, <2>2, <2>3, <2>4 DEF IsMessage
  <1>9. IsMessage(q)
    BY <1>7, <1>8
  <1>10. due' \subseteq (DOMAIN incoming) \X Engines \X RuleId
    BY <1>2, <1>5, <1>6 DEF InTurn
  <1>11. \A t \in due' \ due : t[1] = m /\ Was(t)
    BY <1>5, <1>6 DEF Was
  <1>12. ASSUME NEW t \in due', t[1] = m
         PROVE  t \in ran' \/ Awaits(q, t[2], t[3])
    <2>1. CASE t \in due
      BY <1>2, <1>4, <1>12, <2>1
    <2>2. CASE t \notin due
      <3>1. PICK r \in mine : t = <<m, e, r>>
        BY <1>5, <2>2
      <3>2. Engine[q.in] = e
        BY <1>8, <3>1 DEF Inside
      <3> QED BY <1>8, <3>1, <3>2 DEF Awaits
    <2> QED BY <2>1, <2>2
  <1>13. \A c \in q.left : <<m, Engine[q.in], c.id>> \in due'
    BY <1>5, <1>7, <1>8 DEF Inside
  <1>14. due \subseteq due' /\ ran \subseteq ran' /\ ran' \subseteq due'
    BY <1>2, <1>5 DEF InTurn
  <1> HIDE DEF p, e
  <1> QED BY <1>2, <1>5, <1>9, <1>10, <1>11, <1>12, <1>13, <1>14, OneMessage

\* A rule has its turn, whatever comes of it.
LEMMA TurnInv ==
    ASSUME RInv, NEW m \in DOMAIN incoming, RunRule(m) \/ RuleFails(m)
    PROVE  RInv'
  <1> USE DEF RInv
  <1> DEFINE p == incoming[m]
  <1>1. PICK c \in p.left : Turn(m, c)
    BY DEF RunRule, RuleFails
  <1>2. PICK q : /\ incoming' = [incoming EXCEPT ![m] = q]
                 /\ IF p.left = {c} THEN q = Leave(p) ELSE q = [p EXCEPT !.left = @ \ {c}]
    BY <1>1 DEF Turn, Without
  <1>3. IsMessage(p) /\ p.at = "run" /\ p.in \in 1..2
    BY <1>1 DEF Turn, Delivered, IsMessage
  <1>4. ran' = ran \cup {<<m, Inside(m), c.id>>} /\ UNCHANGED <<rules, notifying, offAt, due>>
    BY <1>1 DEF Turn, RunRule, RuleFails, Still
  <1>5. <<m, Inside(m), c.id>> \in due
    BY DEF InTurn
  <1>6. ASSUME p.left = {c}
        PROVE  IsMessage(q) /\ q.left = {}
    BY <1>2, <1>3, <1>6, LeavesClean
  <1>7. ASSUME p.left # {c}
        PROVE  IsMessage(q) /\ q.at = "run" /\ q.in = p.in /\ q.left = p.left \ {c}
    <2>1. /\ DOMAIN q = {"kind", "in", "at", "left"} /\ q.in = p.in /\ q.at = "run"
          /\ q.left = p.left \ {c}
      BY <1>2, <1>3, <1>7 DEF IsMessage
    <2> QED BY <1>3, <1>7, <2>1 DEF IsMessage
  <1>8. IsMessage(q)
    BY <1>6, <1>7
  <1>9. ASSUME NEW t \in due, t[1] = m
        PROVE  t \in ran' \/ Awaits(q, t[2], t[3])
    <2>1. CASE t \in ran
      BY <1>4, <2>1
    <2>2. CASE t \notin ran
      <3>1. PICK d \in p.left : t[2] = Inside(m) /\ d.id = t[3]
        BY <1>3, <1>9, <2>2 DEF InTurn, Awaits, Inside
      <3>2. t = <<m, t[2], t[3]>>
        BY <1>9 DEF InTurn
      <3>3. CASE d.id = c.id
        BY <1>4, <3>1, <3>2, <3>3
      <3>4. CASE d.id # c.id
        <4>1. p.left # {c} /\ d \in p.left \ {c}
          BY <3>4
        <4> QED BY <1>7, <3>1, <4>1 DEF Awaits, Inside
      <3> QED BY <3>3, <3>4
    <2> QED BY <2>1, <2>2
  <1>10. \A d \in q.left : <<m, Engine[q.in], d.id>> \in due
    BY <1>6, <1>7 DEF InTurn, Inside
  <1>11. ran \subseteq ran' /\ ran' \subseteq due'
    BY <1>4, <1>5 DEF InTurn
  <1>12. due' \subseteq (DOMAIN incoming) \X Engines \X RuleId
    BY <1>4 DEF InTurn
  <1> HIDE DEF p
  <1> QED BY <1>2, <1>4, <1>8, <1>9, <1>10, <1>11, <1>12, OneMessage

\* A process that dies loses its messages; the tables stay.
LEMMA RulesCrashInv ==
    ASSUME RInv, RulesCrash
    PROVE  RInv'
  <1> USE DEF RInv
  <1>1. UNCHANGED <<rules, notifying, offAt, ran, due>>
    BY DEF RulesCrash, Still
  <1>2. incoming' = [m \in DOMAIN incoming |->
                       [incoming[m] EXCEPT !.in = 3, !.at = "lost", !.left = {}]]
    BY DEF RulesCrash
  <1>3. ASSUME NEW m \in DOMAIN incoming
        PROVE  IsMessage(incoming'[m]) /\ incoming'[m].at = "lost" /\ incoming'[m].left = {}
    <2>1. IsMessage(incoming[m])
      BY DEF Delivered
    <2>2. incoming'[m] = [incoming[m] EXCEPT !.in = 3, !.at = "lost", !.left = {}]
      BY <1>2
    <2>3. PICK q : q = incoming'[m]
      OBVIOUS
    <2>4. DOMAIN q = {"kind", "in", "at", "left"} /\ q.in = 3 /\ q.at = "lost" /\ q.left = {}
      BY <2>1, <2>2, <2>3 DEF IsMessage
    <2> QED BY <2>3, <2>4 DEF IsMessage
  <1>4. Len(incoming) \in Nat /\ DOMAIN incoming = 1..Len(incoming)
    BY DEF Delivered
  <1>5. DOMAIN incoming' = DOMAIN incoming
    BY <1>2
  <1>6. incoming' \in Seq(Mail') /\ Len(incoming') = Len(incoming)
    <2>1. incoming' \in [1..Len(incoming) -> Mail']
      BY <1>2, <1>4 DEF Mail
    <2> QED BY <1>4, <2>1, SeqDef
  <1>7. Delivered'
    BY <1>3, <1>5, <1>6 DEF Delivered, IsMessage
  <1>8. Ruled'
    BY <1>1, <1>6 DEF Ruled
  <1>9. InTurn'
    <2>1. \A t \in due : Was(t)'
      BY <1>1 DEF InTurn, Was
    <2>2. \A t \in due : incoming'[t[1]].at = "lost"
      BY <1>3 DEF InTurn
    <2> QED BY <1>1, <1>3, <1>5, <2>1, <2>2 DEF InTurn
  <1> QED BY <1>7, <1>8, <1>9

\* Every step keeps the invariant.
LEMMA RulesStepInv == RInv /\ [RulesNext]_<<envVars, rulesVars>> => RInv'
  <1> SUFFICES ASSUME RInv, [RulesNext]_<<envVars, rulesVars>> PROVE RInv'
    OBVIOUS
  <1>1. ASSUME NEW e \in Engines, NEW r \in RuleId,
               \/ DeleteRule(e, r)
               \/ \E s \in Shape : CreateRule(e, r, s)
               \/ \E b \in BOOLEAN : ToggleRule(e, r, b)
        PROVE  RInv'
    BY <1>1, RuleCommandInv
  <1>2. ASSUME NEW b \in BOOLEAN, SwitchNotifications(b)
        PROVE  RInv'
    BY <1>2 DEF SwitchNotifications, RInv, Ruled, Delivered, Mail, InTurn, IsMessage, Inside, Was, Awaits
  <1>3. ASSUME NEW m \in DOMAIN incoming,
               ReadRules(m) \/ ReadFails(m) \/ RunRule(m) \/ RuleFails(m)
        PROVE  RInv'
    BY <1>3, ReadInv, TurnInv
  <1>4. ASSUME UNCHANGED <<envVars, rulesVars>>
        PROVE  RInv'
    BY <1>4 DEF rulesVars, RInv, Ruled, Delivered, Mail, InTurn, IsMessage, Inside, Was, Awaits
  <1> QED BY <1>1, <1>2, <1>3, <1>4, MessageComesInv, RulesCrashInv DEF RulesNext

\* Every rule a message has read gets its turn, and acts only if it was on since
\* the message came: RulesHaveTheirTurn, for any rules and any number of messages.
THEOREM RulesAlwaysHaveTheirTurn == RulesSpec => []RulesHaveTheirTurn
  <1>1. RulesSpec => []RInv
    BY RulesInitInv, RulesStepInv, PTL DEF RulesSpec
  <1> QED BY <1>1, RulesHold, PTL

-----------------------------------------------------------------------------
(* The tables: of two tasks at work on one row, neither touches a column   *)
(* that the other has read.                                                *)

TablesNext ==
    \E c \in Clerk :
      \/ \E t \in Table, op \in Op, v \in Value, L \in SUBSET Label : Asks(c, t, op, v, L)
      \/ Writes(c) \/ RefreshFails(c) \/ WriteFails(c)

TablesSpec == EnvInit /\ TablesInit /\ [][TablesNext]_<<envVars, tablesVars>>

-----------------------------------------------------------------------------
IsRow(r) == DOMAIN r = {"id", "val", "labels"}
Reads(c, t) == desk[c].at = "read" /\ desk[c].table = t

\* What the owner would see of some rows.
Told(v, l) == [val |-> v, labels |-> l]
Shown(rows) == {Told(r.val, r.labels) : r \in rows}

\* `a` and `b` agree on the columns of an operation, or on the others.
AgreeOn(op, a, b) == /\ "val" \in Columns[op] => a.val = b.val
                     /\ "labels" \in Columns[op] => a.labels = b.labels
AgreeOff(op, a, b) == /\ a.id = b.id
                      /\ "val" \notin Columns[op] => a.val = b.val
                      /\ "labels" \notin Columns[op] => a.labels = b.labels

\* What a task has read of its columns is still so; a row made since by another
\* has them blank.
StillSo(w) ==
    IF w.seen = {} THEN \A r \in row[w.table] : /\ w.op # "drop"
                                                /\ "labels" \in Columns[w.op] => r.labels = {}
    ELSE \E s, r : /\ IsRow(s) /\ w.seen = {s} /\ row[w.table] = {r}
                   /\ r.id = s.id /\ AgreeOn(w.op, r, s)

\* A table on which no two commands were at work on one column.
Orderly(t) ==
    /\ row[t] = {} \/ \E r : IsRow(r) /\ row[t] = {r}
    /\ told[t] = Shown(row[t])
    /\ \A c \in Clerk : Reads(c, t) => desk[c].op \in Offers(t) /\ StillSo(desk[c])
    /\ \A c, p \in Clerk : Reads(c, t) /\ Reads(p, t) /\ c # p
                             => Columns[desk[c].op] \cap Columns[desk[p].op] = {}

IsDesk(w) == DOMAIN w = {"at", "table", "op", "val", "labels", "seen"} /\ w.table \in Table

TInv ==
    /\ DOMAIN row = Table /\ DOMAIN told = Table /\ DOMAIN desk = Clerk
    /\ \A c \in Clerk : IsDesk(desk[c])
    /\ \A t \in Table \ clashed : Orderly(t)

-----------------------------------------------------------------------------
LEMMA TablesHold == TInv => RowsAsTold
  BY DEF TInv, Orderly, RowsAsTold, Shown, Told

LEMMA TablesInitInv == TablesInit => TInv
  <1> SUFFICES ASSUME TablesInit PROVE TInv
    OBVIOUS
  <1>1. \A c \in Clerk : desk[c].at = "idle" /\ IsDesk(desk[c])
    BY DEF TablesInit, NoWork, IsDesk, Table
  <1>2. \A t \in Table : row[t] = {} /\ told[t] = {}
    BY DEF TablesInit
  <1> QED BY <1>1, <1>2 DEF TablesInit, TInv, Orderly, Reads, Shown

LEMMA OnlyOne == ASSUME NEW x PROVE (CHOOSE z \in {x} : TRUE) = x
  OBVIOUS

\* The columns of the operations, and where they are offered.
LEMMA ColumnsOf ==
    ASSUME NEW t \in Table, NEW op \in Offers(t)
    PROVE  /\ op \in Op
           /\ op \in {"save", "describe"} => Columns[op] = {"val"}
           /\ op = "open" => Columns[op] = {}
           /\ op \in {"label", "unlabel"} => Columns[op] = {"labels"}
           /\ op = "drop" => Columns[op] = {"val", "labels"}
           /\ t # "profile" => op \in {"save", "drop"}
           /\ t = "profile" => op \in {"open", "describe", "label", "unlabel"}
  <1>1. CASE t = "profile"
    <2>1. op \in {"open", "describe", "label", "unlabel"}
      BY <1>1 DEF Offers
    <2> QED BY <1>1, <2>1 DEF Columns, Op
  <1>2. CASE t # "profile"
    <2>1. t \in {"inbox", "memory", "note"}
      BY <1>2 DEF Table
    <2>2. op \in {"save", "drop"}
      BY <1>2, <2>1 DEF Offers
    <2> QED BY <1>2, <2>2 DEF Columns, Op
  <1> QED BY <1>1, <1>2

\* The value and the labels a command leaves, of `v` and `l`.
ValOf(w, v) == IF w.op \in {"save", "describe"} THEN w.val ELSE v
LabelsOf(w, l) == IF w.op = "label" THEN l \cup w.labels
                  ELSE IF w.op = "unlabel" THEN l \ w.labels ELSE l

\* What is told of a command that changes the row that is there.
LEMMA IntendedOnOne ==
    ASSUME NEW w, NEW v, NEW l,
           w.op \in {"save", "describe", "label", "unlabel"} \/ (w.op = "open" /\ w.seen # {})
    PROVE  Intended(w, {Told(v, l)}) = {Told(ValOf(w, v), LabelsOf(w, l))}
  <1> USE DEF ValOf, LabelsOf
  <1>1. PICK x : x = Told(v, l)
    OBVIOUS
  <1>2. (CHOOSE z \in {x} : TRUE) = x /\ {x} # {}
    BY OnlyOne
  <1>3. /\ \A a : [x EXCEPT !.val = a] = Told(a, l)
        /\ [x EXCEPT !.labels = @ \cup w.labels] = Told(v, l \cup w.labels)
        /\ [x EXCEPT !.labels = @ \ w.labels] = Told(v, l \ w.labels)
    BY <1>1 DEF Told
  <1>4. CASE w.op \in {"save", "describe"}
    BY <1>1, <1>2, <1>3, <1>4 DEF Intended
  <1>5. CASE w.op = "label"
    BY <1>1, <1>2, <1>3, <1>5 DEF Intended
  <1>6. CASE w.op = "unlabel"
    BY <1>1, <1>2, <1>3, <1>6 DEF Intended
  <1>7. CASE w.op = "open" /\ w.seen # {}
    BY <1>1, <1>2, <1>3, <1>7 DEF Intended
  <1> QED BY <1>4, <1>5, <1>6, <1>7

\* ... and of one that makes the row.
LEMMA IntendedOnNone ==
    ASSUME NEW w, w.op \in Op, w.seen = {}
    PROVE  Intended(w, {}) = IF w.op \in {"unlabel", "drop"} THEN {}
                             ELSE {Told(ValOf(w, 0), LabelsOf(w, {}))}
  <1> USE DEF ValOf, LabelsOf
  <1>1. PICK x : x = Told(0, {}) /\ x = [val |-> 0, labels |-> {}]
    BY DEF Told
  <1>3. /\ \A a : [x EXCEPT !.val = a] = Told(a, {})
        /\ [x EXCEPT !.labels = @ \cup w.labels] = Told(0, {} \cup w.labels)
    BY <1>1 DEF Told
  <1>4. CASE w.op \in {"save", "describe"}
    BY <1>1, <1>3, <1>4 DEF Intended
  <1>5. CASE w.op = "label"
    BY <1>1, <1>3, <1>5 DEF Intended
  <1>6. CASE w.op = "unlabel"
    BY <1>6 DEF Intended
  <1>7. CASE w.op = "open"
    BY <1>1, <1>7 DEF Intended
  <1>8. CASE w.op = "drop"
    BY <1>8 DEF Intended
  <1> QED BY <1>4, <1>5, <1>6, <1>7, <1>8 DEF Op

\* What a command that is offered makes of the one row `s`.
LEMMA MadeOfOne ==
    ASSUME NEW w, NEW s, IsRow(s), w.op \in Op \ {"drop"},
           w.seen = {s} \/ (w.seen = {} /\ s = Blank /\ w.op # "unlabel")
    PROVE  \E n : /\ Makes(w) = {n} /\ IsRow(n) /\ n.id = s.id
                  /\ n.val = ValOf(w, s.val) /\ n.labels = LabelsOf(w, s.labels)
  <1> USE DEF ValOf, LabelsOf
  <1>1. Opened(w) = {s}
    BY DEF Opened
  <1>2. CASE w.op \in {"save", "describe"}
    <2>1. PICK n : n = [s EXCEPT !.val = w.val]
      OBVIOUS
    <2>2. Makes(w) = {n}
      BY <1>1, <1>2, <2>1 DEF Makes, Saved, Described
    <2>3. IsRow(n) /\ n.id = s.id /\ n.val = w.val /\ n.labels = s.labels
      BY <2>1 DEF IsRow
    <2> QED BY <1>2, <2>2, <2>3
  <1>3. CASE w.op = "label"
    <2>1. PICK n : n = [s EXCEPT !.labels = @ \cup w.labels]
      OBVIOUS
    <2>2. Makes(w) = {n}
      BY <1>1, <1>3, <2>1 DEF Makes, Labelled
    <2>3. IsRow(n) /\ n.id = s.id /\ n.val = s.val /\ n.labels = s.labels \cup w.labels
      BY <2>1 DEF IsRow
    <2> QED BY <1>3, <2>2, <2>3
  <1>4. CASE w.op = "unlabel"
    <2>1. PICK n : n = [s EXCEPT !.labels = @ \ w.labels]
      OBVIOUS
    <2>2. Makes(w) = {n}
      BY <1>4, <2>1 DEF Makes, Unlabelled
    <2>3. IsRow(n) /\ n.id = s.id /\ n.val = s.val /\ n.labels = s.labels \ w.labels
      BY <2>1 DEF IsRow
    <2> QED BY <1>4, <2>2, <2>3
  <1>5. CASE w.op = "open"
    <2>1. Makes(w) = {s}
      BY <1>1, <1>5 DEF Makes
    <2> QED BY <1>5, <2>1
  <1> QED BY <1>2, <1>3, <1>4, <1>5 DEF Op

\* What the write of the operation `op`, of a task that has or has not read a
\* row, does to the rows of its table.
Effect(t, op, seen) ==
    \/ row'[t] = row[t]
    \/ op = "drop" /\ row'[t] = {}
    \/ /\ row[t] = {} /\ seen = {} /\ op # "drop"
       /\ \E n : IsRow(n) /\ row'[t] = {n} /\ ("labels" \notin Columns[op] => n.labels = {})
    \/ \E r, y : /\ row[t] = {r} /\ IsRow(y) /\ row'[t] = {y}
                 /\ AgreeOff(op, y, r)

\* A row that was read is still there, and its columns are as they were read.
LEMMA UpdatesOne ==
    ASSUME TInv, NEW c \in Clerk, NEW t \in Table, Reads(c, t), Orderly(t), Commits(c),
           desk[c].seen # {}, desk[c].op # "drop"
    PROVE  told'[t] = Shown(row'[t]) /\ Effect(t, desk[c].op, desk[c].seen)
  <1> DEFINE w == desk[c]
  <1>1. w.table = t /\ w.op \in Offers(t) /\ StillSo(w)
    BY DEF Reads, Orderly
  <1>2. PICK s, r : /\ IsRow(s) /\ w.seen = {s} /\ row[t] = {r}
                    /\ r.id = s.id /\ AgreeOn(w.op, r, s)
    BY <1>1 DEF StillSo
  <1>3. IsRow(r) /\ told[t] = {Told(r.val, r.labels)}
    <2>1. \E q : IsRow(q) /\ row[t] = {q}
      BY <1>2 DEF Orderly
    <2> QED BY <1>2, <2>1 DEF Orderly, Shown
  <1>4. w.op \in Op \ {"drop"}
    BY <1>1, ColumnsOf
  <1>5. PICK n : /\ Makes(w) = {n} /\ IsRow(n) /\ n.id = s.id
                 /\ n.val = ValOf(w, s.val) /\ n.labels = LabelsOf(w, s.labels)
    BY <1>2, <1>4, MadeOfOne
  <1>6. ~InsertConflicts(w) /\ ~UpdateMisses(w)
    BY <1>1, <1>2 DEF InsertConflicts, UpdateMisses
  <1>7. row'[t] = IF n = s THEN {r} ELSE Merge(t, s, n)
    <2>1. row'[t] = RowsAfter(w) /\ ~Raises(w)
      BY <1>1, <1>6 DEF Commits, TInv, Raises
    <2>2. Makes(w) = w.seen <=> n = s
      BY <1>2, <1>5
    <2>3. Updated(w) = Merge(t, s, n)
      <3>1. (CHOOSE x \in w.seen : TRUE) = s
        BY <1>2, OnlyOne
      <3>2. UNION {Merge(t, s, m) : m \in {n}} = Merge(t, s, n)
        OBVIOUS
      <3> QED BY <1>1, <1>5, <3>1, <3>2 DEF Updated
    <2> QED BY <1>1, <1>2, <1>4, <2>1, <2>2, <2>3 DEF RowsAfter, NoWrite
  <1>8. told'[t] = Intended(w, {Told(r.val, r.labels)})
    BY <1>1, <1>3, <1>6 DEF Commits, TInv, Raises
  <1>9. PICK y : /\ IsRow(y) /\ row'[t] = {y} /\ y.id = r.id
                 /\ y.val = IF n.val # s.val THEN n.val ELSE r.val
                 /\ y.labels = IF n.labels # s.labels THEN n.labels ELSE r.labels
    <2>1. CASE n = s
      BY <1>3, <1>7, <2>1
    <2>2. CASE n # s
      <3>1. PICK y : y = [r EXCEPT !.val = IF n.val # s.val THEN n.val ELSE r.val,
                                   !.labels = IF n.labels # s.labels THEN n.labels ELSE r.labels]
        OBVIOUS
      <3>2. Merge(t, s, n) = {y}
        BY <1>2, <3>1 DEF Merge
      <3>3. /\ IsRow(y) /\ y.id = r.id
            /\ y.val = IF n.val # s.val THEN n.val ELSE r.val
            /\ y.labels = IF n.labels # s.labels THEN n.labels ELSE r.labels
        BY <1>3, <3>1 DEF IsRow
      <3> QED BY <1>7, <2>2, <3>2, <3>3
    <2> QED BY <2>1, <2>2
  <1>10. Shown(row'[t]) = {Told(y.val, y.labels)}
    BY <1>9 DEF Shown
  <1>11. /\ Columns[w.op] = IF w.op \in {"save", "describe"} THEN {"val"}
                            ELSE IF w.op = "open" THEN {} ELSE {"labels"}
    BY <1>1, <1>4, ColumnsOf DEF Op
  <1>12. y.val = ValOf(w, r.val) /\ y.labels = LabelsOf(w, r.labels)
    <2>1. CASE w.op \in {"save", "describe"}
      <3>1. r.val = s.val /\ n.val = w.val /\ n.labels = s.labels
        BY <1>2, <1>5, <1>11, <2>1 DEF AgreeOn, ValOf, LabelsOf
      <3> QED BY <1>9, <2>1, <3>1 DEF ValOf, LabelsOf
    <2>2. CASE w.op \in {"label", "unlabel"}
      <3>1. r.labels = s.labels /\ n.val = s.val /\ n.labels = LabelsOf(w, s.labels)
        BY <1>2, <1>5, <1>11, <2>2 DEF AgreeOn, ValOf
      <3> QED BY <1>9, <2>2, <3>1 DEF ValOf
    <2>3. CASE w.op = "open"
      <3>1. n.val = s.val /\ n.labels = s.labels
        BY <1>5, <2>3 DEF ValOf, LabelsOf
      <3> QED BY <1>9, <2>3, <3>1 DEF ValOf, LabelsOf
    <2> QED BY <1>4, <2>1, <2>2, <2>3 DEF Op
  <1>13. told'[t] = {Told(y.val, y.labels)}
    <2>1. w.op \in {"save", "describe", "label", "unlabel"} \/ (w.op = "open" /\ w.seen # {})
      BY <1>4 DEF Op
    <2>2. told'[t] = {Told(ValOf(w, r.val), LabelsOf(w, r.labels))}
      BY <1>8, <2>1, IntendedOnOne
    <2> QED BY <1>12, <2>2
  <1>14. AgreeOff(w.op, y, r)
    BY <1>4, <1>9, <1>11, <1>12 DEF AgreeOff, Op, ValOf, LabelsOf
  <1> QED BY <1>2, <1>9, <1>10, <1>13, <1>14 DEF Effect

\* Where no row was read, one is made, or another made it and the insert raises.
LEMMA InsertsOne ==
    ASSUME TInv, NEW c \in Clerk, NEW t \in Table, Reads(c, t), Orderly(t), Commits(c),
           desk[c].seen = {}, desk[c].op \notin {"drop", "unlabel"}
    PROVE  told'[t] = Shown(row'[t]) /\ Effect(t, desk[c].op, desk[c].seen)
  <1> DEFINE w == desk[c]
  <1>1. w.table = t /\ w.op \in Offers(t) /\ w.op \in Op \ {"drop", "unlabel"}
    BY ColumnsOf DEF Reads, Orderly
  <1>2. IsRow(Blank) /\ Blank.val = 0 /\ Blank.labels = {}
    BY DEF IsRow, Blank
  <1>3. PICK n : /\ Makes(w) = {n} /\ IsRow(n)
                 /\ n.val = ValOf(w, 0) /\ n.labels = LabelsOf(w, {})
    <2>1. PICK n : /\ Makes(w) = {n} /\ IsRow(n)
                   /\ n.val = ValOf(w, Blank.val) /\ n.labels = LabelsOf(w, Blank.labels)
      BY <1>1, <1>2, MadeOfOne
    <2> QED BY <1>2, <2>1
  <1>4. /\ ~UpdateMisses(w) /\ (InsertConflicts(w) <=> row[t] # {})
        /\ Makes(w) # w.seen
    BY <1>1, <1>3 DEF InsertConflicts, UpdateMisses
  <1>5. CASE row[t] # {}
    <2>1. Raises(w)
      BY <1>1, <1>4, <1>5 DEF Raises
    <2>2. told' = told /\ row'[t] = row[t]
      BY <1>1, <2>1 DEF Commits, RowsAfter, NoWrite, TInv
    <2> QED BY <2>2 DEF Effect, Orderly
  <1>6. CASE row[t] = {}
    <2>1. ~Raises(w)
      BY <1>4, <1>6 DEF Raises
    <2>2. told'[t] = Intended(w, {}) /\ row'[t] = Inserted(w)
      <3>1. told[t] = {}
        BY <1>6 DEF Orderly, Shown
      <3>2. ~NoWrite(w)
        BY <1>4, <2>1 DEF NoWrite
      <3>3. row'[t] = RowsAfter(w)
        BY <1>1 DEF Commits, TInv
      <3>4. told'[t] = Intended(w, told[t])
        BY <1>1, <2>1 DEF Commits, TInv
      <3> QED BY <3>1, <3>2, <3>3, <3>4 DEF RowsAfter
    <2>3. PICK y : y = [n EXCEPT !.id = IF t \in {"inbox", "memory"} THEN orders ELSE 0]
      OBVIOUS
    <2>4. row'[t] = {y}
      BY <1>1, <1>3, <2>2, <2>3 DEF Inserted
    <2>5. IsRow(y) /\ y.val = n.val /\ y.labels = n.labels
      BY <1>3, <2>3 DEF IsRow
    <2>6. told'[t] = {Told(ValOf(w, 0), LabelsOf(w, {}))}
      BY <1>1, <2>2, IntendedOnNone
    <2>7. told'[t] = {Told(y.val, y.labels)}
      BY <1>3, <2>5, <2>6
    <2>8. Shown(row'[t]) = {Told(y.val, y.labels)}
      BY <2>4 DEF Shown
    <2>9. "labels" \notin Columns[w.op] => y.labels = {}
      BY <1>1, <1>3, <2>5, ColumnsOf DEF LabelsOf
    <2>10. Effect(t, w.op, w.seen)
      BY <1>1, <1>6, <2>4, <2>5, <2>9 DEF Effect
    <2> QED BY <2>7, <2>8, <2>10
  <1> QED BY <1>5, <1>6

\* What takes a row away, or finds none to take a label from.
LEMMA TakesAway ==
    ASSUME TInv, NEW c \in Clerk, NEW t \in Table, Reads(c, t), Orderly(t), Commits(c),
           desk[c].op = "drop" \/ (desk[c].op = "unlabel" /\ desk[c].seen = {})
    PROVE  told'[t] = Shown(row'[t]) /\ Effect(t, desk[c].op, desk[c].seen)
  <1> DEFINE w == desk[c]
  <1>1. w.table = t /\ w.op \in Offers(t) /\ StillSo(w)
    BY DEF Reads, Orderly
  <1>2. CASE w.op = "drop"
    <2>1. Makes(w) = {}
      BY <1>2 DEF Makes, Dropped
    <2>0. row'[t] = RowsAfter(w)
      BY <1>1 DEF Commits, TInv
    <2>2. row'[t] = {}
      <3>1. CASE w.seen = {}
        <4>1. row[t] = {}
          BY <1>1, <1>2, <3>1 DEF StillSo
        <4> QED BY <1>1, <2>0, <2>1, <3>1, <4>1 DEF RowsAfter, Inserted
      <3>2. CASE w.seen # {}
        <4>1. ~NoWrite(w)
          BY <1>2, <2>1, <3>2 DEF NoWrite, Raises
        <4>2. Updated(w) = {}
          BY <2>1 DEF Updated
        <4> QED BY <2>0, <3>2, <4>1, <4>2 DEF RowsAfter
      <3> QED BY <3>1, <3>2
    <2>3. told'[t] = Intended(w, told[t])
      BY <1>1, <1>2 DEF Commits, TInv, Raises
    <2>4. told'[t] = {}
      BY <1>2, <2>3 DEF Intended
    <2> QED BY <1>2, <2>2, <2>4 DEF Effect, Shown
  <1>3. CASE w.op = "unlabel" /\ w.seen = {}
    <2>1. Makes(w) = {}
      BY <1>3 DEF Makes, Unlabelled
    <2>2. row'[t] = RowsAfter(w) /\ told'[t] = Intended(w, told[t])
      BY <1>1, <1>3, <2>1 DEF Commits, TInv, Raises
    <2>3. row'[t] = row[t]
      BY <1>1, <1>3, <2>1, <2>2 DEF RowsAfter, NoWrite
    <2>4. told'[t] = told[t]
      <3>1. CASE row[t] = {}
        <4>1. told[t] = {}
          BY <3>1 DEF Orderly, Shown
        <4> QED BY <1>3, <2>2, <4>1 DEF Intended
      <3>2. CASE row[t] # {}
        <4>1. PICK r : row[t] = {r} /\ told[t] = {Told(r.val, r.labels)}
          BY <3>2 DEF Orderly, Shown
        <4>2. r.labels = {}
          <5>1. "labels" \in Columns[w.op]
            BY <1>1, <1>3, ColumnsOf
          <5> QED BY <1>1, <1>3, <4>1, <5>1 DEF StillSo
        <4>3. told'[t] = {Told(r.val, {} \ w.labels)}
          <5>1. told'[t] = {Told(ValOf(w, r.val), LabelsOf(w, r.labels))}
            BY <1>3, <2>2, <4>1, IntendedOnOne
          <5>2. ValOf(w, r.val) = r.val /\ LabelsOf(w, r.labels) = r.labels \ w.labels
            BY <1>3 DEF ValOf, LabelsOf
          <5> QED BY <4>2, <5>1, <5>2
        <4>4. {} \ w.labels = {}
          OBVIOUS
        <4> QED BY <4>1, <4>2, <4>3, <4>4
      <3> QED BY <3>1, <3>2
    <2> QED BY <2>3, <2>4 DEF Effect, Orderly
  <1> QED BY <1>2, <1>3

\* A write keeps its table in order: whoever else reads it works on other columns.
LEMMA CommitsInv ==
    ASSUME TInv, NEW c \in Clerk, Commits(c)
    PROVE  TInv'
  <1> DEFINE w == desk[c]
  <1>1. w.at = "read" /\ desk' = [desk EXCEPT ![c] = NoWork] /\ clashed' = clashed
    BY DEF Commits
  <1>2. PICK t \in Table : t = w.table
    BY DEF TInv, IsDesk
  <1>3. /\ DOMAIN row' = Table /\ DOMAIN told' = Table
        /\ \A u \in Table \ {t} : row'[u] = row[u] /\ told'[u] = told[u]
    <2>1. row' = [row EXCEPT ![w.table] = RowsAfter(w)]
      BY DEF Commits
    <2>2. told' = told \/ told' = [told EXCEPT ![w.table] = Intended(w, @)]
      BY DEF Commits
    <2>3. DOMAIN row' = Table /\ \A u \in Table \ {t} : row'[u] = row[u]
      BY <1>2, <2>1 DEF TInv
    <2>4. DOMAIN told' = Table /\ \A u \in Table \ {t} : told'[u] = told[u]
      BY <1>2, <2>2 DEF TInv
    <2> QED BY <2>3, <2>4
  <1>4. /\ DOMAIN desk' = Clerk /\ desk'[c].at = "idle" /\ IsDesk(desk'[c])
        /\ \A p \in Clerk \ {c} : desk'[p] = desk[p]
    BY <1>1 DEF TInv, NoWork, IsDesk, Table
  <1>5. ASSUME NEW u \in Table \ clashed, u # t
        PROVE  Orderly(u)'
    <2>1. Orderly(u)
      BY DEF TInv
    <2>2. \A p \in Clerk : Reads(p, u)' => p # c /\ Reads(p, u) /\ desk'[p] = desk[p]
      BY <1>4 DEF Reads
    <2>3. ASSUME NEW p \in Clerk, Reads(p, u)'
          PROVE  desk'[p].op \in Offers(u) /\ StillSo(desk[p])'
      <3>1. Reads(p, u) /\ desk'[p] = desk[p] /\ desk[p].table = u /\ StillSo(desk[p])
        BY <2>1, <2>2, <2>3 DEF Reads, Orderly
      <3>2. row'[desk'[p].table] = row[desk[p].table]
        BY <1>3, <1>5, <3>1
      <3> QED BY <2>1, <3>1, <3>2 DEF Orderly, StillSo
    <2> QED BY <1>3, <1>5, <2>1, <2>2, <2>3 DEF Orderly, Shown
  <1>6. ASSUME t \notin clashed
        PROVE  Orderly(t)'
    <2>1. Orderly(t) /\ Reads(c, t)
      BY <1>1, <1>2, <1>6 DEF TInv, Reads
    <2>2. told'[t] = Shown(row'[t]) /\ Effect(t, w.op, w.seen)
      BY <2>1, UpdatesOne, InsertsOne, TakesAway
    <2>3. row'[t] = {} \/ \E r : IsRow(r) /\ row'[t] = {r}
      BY <2>1, <2>2 DEF Effect, Orderly
    <2>4. \A p \in Clerk : Reads(p, t)' => p # c /\ Reads(p, t) /\ desk'[p] = desk[p]
      BY <1>4 DEF Reads
    <2>5. ASSUME NEW p \in Clerk, Reads(p, t)'
          PROVE  desk'[p].op \in Offers(t) /\ StillSo(desk[p])'
      <3> DEFINE v == desk[p]
      <3>1. /\ p # c /\ Reads(p, t) /\ desk'[p] = v /\ v.table = t
            /\ v.op \in Offers(t) /\ StillSo(v) /\ w.op \in Offers(t)
            /\ Columns[v.op] \cap Columns[w.op] = {}
        BY <2>1, <2>4, <2>5 DEF Reads, Orderly
      \* beside another task there is nobody who drops rows
      <3>2. w.op # "drop" /\ v.op # "drop"
        <4>1. t = "profile"
          BY <3>1, ColumnsOf
        <4> QED BY <3>1, <4>1, ColumnsOf
      <3>3. CASE row'[t] = row[t]
        BY <3>1, <3>3 DEF StillSo
      <3>4. CASE /\ row[t] = {}
                 /\ \E n : row'[t] = {n} /\ ("labels" \notin Columns[w.op] => n.labels = {})
        <4>1. v.seen = {}
          BY <3>1, <3>4 DEF StillSo
        <4> QED BY <3>1, <3>2, <3>4, <4>1 DEF StillSo
      <3>5. ASSUME NEW r, NEW y, row[t] = {r}, row'[t] = {y}, AgreeOff(w.op, y, r)
            PROVE  StillSo(v)'
        <4>1. /\ y.id = r.id
              /\ "val" \in Columns[v.op] => y.val = r.val
              /\ "labels" \in Columns[v.op] => y.labels = r.labels
          BY <3>1, <3>5 DEF AgreeOff
        <4>2. CASE v.seen = {}
          BY <3>1, <3>5, <4>1, <4>2 DEF StillSo
        <4>3. CASE v.seen # {}
          <5>1. PICK s : IsRow(s) /\ v.seen = {s} /\ r.id = s.id /\ AgreeOn(v.op, r, s)
            BY <3>1, <3>5, <4>3 DEF StillSo
          <5>2. y.id = s.id /\ AgreeOn(v.op, y, s)
            BY <4>1, <5>1 DEF AgreeOn
          <5> QED BY <3>1, <3>5, <5>1, <5>2 DEF StillSo, AgreeOn
        <4> QED BY <4>2, <4>3
      <3> QED BY <2>2, <3>1, <3>2, <3>3, <3>4, <3>5 DEF Effect
    <2> QED BY <2>1, <2>2, <2>3, <2>4, <2>5 DEF Orderly, Shown
  <1>7. \A p \in Clerk : IsDesk(desk[p])'
    <2>1. \A p \in Clerk : IsDesk(desk'[p])
      BY <1>4 DEF TInv
    <2> QED BY <2>1 DEF IsDesk
  <1> QED BY <1>1, <1>3, <1>4, <1>5, <1>6, <1>7 DEF TInv

\* A task that asks reads the row as it is; whoever is at work on its table is at
\* work on other columns, or the table has clashed.
LEMMA AsksInv ==
    ASSUME TInv, NEW c \in Clerk, NEW t \in Table, NEW op \in Op, NEW v, NEW L, Asks(c, t, op, v, L)
    PROVE  TInv'
  <1>1. /\ desk[c].at = "idle" /\ op \in Offers(t) /\ row' = row /\ told' = told
        /\ \A u \in Table \ {t} : u \in clashed' <=> u \in clashed
        /\ clashed \subseteq clashed'
    BY DEF Asks
  <1>2. PICK w : /\ w = [at |-> "read", table |-> t, op |-> op, val |-> v, labels |-> L, seen |-> row[t]]
                 /\ desk' = [desk EXCEPT ![c] = w]
    BY DEF Asks
  <1>3. IsDesk(w) /\ w.at = "read" /\ w.table = t /\ w.op = op /\ w.seen = row[t]
    BY <1>2 DEF IsDesk
  <1>4. DOMAIN desk' = Clerk /\ desk'[c] = w /\ \A p \in Clerk \ {c} : desk'[p] = desk[p]
    BY <1>2 DEF TInv
  <1>5. ASSUME NEW u \in Table \ clashed'
        PROVE  Orderly(u)'
    <2>1. Orderly(u)
      BY <1>1 DEF TInv
    <2>2. \A p \in Clerk \ {c} : Reads(p, u)' <=> Reads(p, u)
      BY <1>4 DEF Reads
    <2>3. ASSUME NEW p \in Clerk, Reads(p, u)'
          PROVE  desk'[p].op \in Offers(u) /\ StillSo(desk[p])'
      <3>1. CASE p # c
        <4>1. Reads(p, u) /\ desk'[p] = desk[p]
          BY <1>4, <2>2, <2>3, <3>1
        <4>2. desk[p].op \in Offers(u) /\ StillSo(desk[p])
          BY <2>1, <4>1 DEF Orderly
        <4> QED BY <1>1, <4>1, <4>2 DEF StillSo
      <3>2. CASE p = c
        <4>1. u = t
          BY <1>3, <1>4, <2>3, <3>2 DEF Reads
        <4>2. CASE row[t] = {}
          BY <1>1, <1>3, <1>4, <3>2, <4>1, <4>2 DEF StillSo
        <4>3. CASE row[t] # {}
          <5>1. PICK r : IsRow(r) /\ row[t] = {r}
            BY <2>1, <4>1, <4>3 DEF Orderly
          <5> QED BY <1>1, <1>3, <1>4, <3>2, <4>1, <5>1 DEF StillSo, AgreeOn
        <4> QED BY <4>2, <4>3
      <3> QED BY <3>1, <3>2
    <2>4. ASSUME NEW p \in Clerk \ {c}, Reads(p, u), u = t
          PROVE  Columns[desk[p].op] \cap Columns[op] = {}
      BY <1>5, <2>4 DEF Asks, Reads
    <2>5. ASSUME NEW p \in Clerk, NEW q \in Clerk, Reads(p, u)', Reads(q, u)', p # q
          PROVE  Columns[desk'[p].op] \cap Columns[desk'[q].op] = {}
      <3>1. CASE p # c /\ q # c
        BY <1>4, <2>1, <2>2, <2>5, <3>1 DEF Orderly
      <3>2. CASE p = c
        <4>1. u = t /\ q # c
          BY <1>3, <1>4, <2>5, <3>2 DEF Reads
        <4> QED BY <1>3, <1>4, <2>2, <2>4, <2>5, <3>2, <4>1
      <3>3. CASE q = c
        <4>1. u = t /\ p # c
          BY <1>3, <1>4, <2>5, <3>3 DEF Reads
        <4> QED BY <1>3, <1>4, <2>2, <2>4, <2>5, <3>3, <4>1
      <3> QED BY <3>1, <3>2, <3>3
    <2> QED BY <1>1, <2>1, <2>3, <2>5 DEF Orderly
  <1>6. \A p \in Clerk : IsDesk(desk[p])'
    <2>1. \A p \in Clerk : IsDesk(desk'[p])
      BY <1>3, <1>4 DEF TInv
    <2> QED BY <2>1 DEF IsDesk
  <1> QED BY <1>1, <1>4, <1>5, <1>6 DEF TInv

\* A transaction rolled back leaves the row as it was.
LEMMA WriteFailsInv ==
    ASSUME TInv, NEW c \in Clerk, WriteFails(c)
    PROVE  TInv'
  <1>1. desk' = [desk EXCEPT ![c] = NoWork] /\ UNCHANGED <<row, told, clashed>>
    BY DEF WriteFails
  <1>2. /\ DOMAIN desk' = Clerk /\ desk'[c].at = "idle" /\ IsDesk(desk'[c])
        /\ \A p \in Clerk \ {c} : desk'[p] = desk[p]
    BY <1>1 DEF TInv, NoWork, IsDesk, Table
  <1>3. ASSUME NEW u \in Table \ clashed
        PROVE  Orderly(u)'
    <2>1. Orderly(u)
      BY DEF TInv
    <2>2. \A p \in Clerk : Reads(p, u)' => Reads(p, u) /\ desk'[p] = desk[p]
      BY <1>2 DEF Reads
    <2> QED BY <1>1, <2>1, <2>2 DEF Orderly, StillSo
  <1>4. \A p \in Clerk : IsDesk(desk[p])'
    <2>1. \A p \in Clerk : IsDesk(desk'[p])
      BY <1>2 DEF TInv
    <2> QED BY <2>1 DEF IsDesk
  <1> QED BY <1>1, <1>2, <1>3, <1>4 DEF TInv

\* Every step keeps the invariant.
LEMMA TablesStepInv == TInv /\ [TablesNext]_<<envVars, tablesVars>> => TInv'
  <1> SUFFICES ASSUME TInv, [TablesNext]_<<envVars, tablesVars>> PROVE TInv'
    OBVIOUS
  <1>1. ASSUME UNCHANGED <<envVars, tablesVars>>
        PROVE  TInv'
    BY <1>1 DEF tablesVars, TInv, IsDesk, Orderly, Reads, StillSo
  <1>2. ASSUME NEW c \in Clerk, Writes(c) \/ RefreshFails(c)
        PROVE  TInv'
    BY <1>2, CommitsInv DEF Writes, RefreshFails
  <1> QED BY <1>1, <1>2, AsksInv, WriteFailsInv DEF TablesNext

\* Every row holds what the commands that committed were asked for, the ones that then
\* raised included: RowsAsTold, for any number of overlapping and failing commands and
\* any tags.
THEOREM RowsAreAsTold == TablesSpec => []RowsAsTold
  <1>1. TablesSpec => []TInv
    BY TablesInitInv, TablesStepInv, PTL DEF TablesSpec
  <1> QED BY <1>1, TablesHold, PTL

-----------------------------------------------------------------------------
(* The plugins: a command alone knows the entry, and where the file is.    *)

PluginsNext ==
    \/ \E t \in Manager :
         \/ Unloaded(t) \/ ShutdownRaises(t) \/ Exec(t) \/ Startup(t) \/ Load(t)
         \/ Succeeds(t) \/ RollBack(t) \/ GivesUp(t)
         \/ \E v \in Version : Install(t, v)
         \/ RemovePlugin(t) \/ Delete(t) \/ Reload(t)
    \/ PluginsCrash

PluginsSpec == EnvInit /\ PluginsInit /\ [][PluginsNext]_<<envVars, pluginVars>>

-----------------------------------------------------------------------------
\* A task is where its command may take it.
IsTask(r) ==
    /\ DOMAIN r = {"for", "at", "old", "new", "installed"}
    /\ \/ r.for = "nothing" /\ r.at = "idle"
       \/ r.for \in {"install", "load"}
          /\ r.at \in {"load", "shutdown", "exec", "startup", "loaded", "failed"}
       \/ r.for = "reload" /\ r.at \in {"shutdown", "reload"}
       \/ r.for = "remove" /\ r.at \in {"shutdown", "delete"}

Tasks == DOMAIN managing = Manager /\ \A t \in Manager : IsTask(managing[t])

\* What the task at work has read of the entry is still so.
InHand(r) == /\ r.at = "shutdown" => r.old = entry
             /\ r.at = "exec" => entry = {}

\* While a new file is tried, the copy is what was kept; else the file is.
OnDisk(r) == IF r.for = "install" THEN bak = kept ELSE file = kept /\ bak = Absent

\* One command at a time, which knows the entry and the file.
OneByOne ==
    /\ \A t, p \in Manager : managing[t].at # "idle" /\ managing[p].at # "idle" => t = p
    /\ \A t \in Manager : InHand(managing[t])
    /\ \A t \in Manager : managing[t].at # "idle" => OnDisk(managing[t])
    /\ (\A t \in Manager : managing[t].at = "idle") => file = kept /\ bak = Absent

PInv == Tasks /\ NoStrayCallbacks /\ (~tangled => OneByOne)

-----------------------------------------------------------------------------
LEMMA PluginsHold == PInv => PluginsAgree
  BY DEF PInv, OneByOne, PluginsAgree, FailedInstallUndone

LEMMA FreeIsTask == IsTask(Free) /\ Free.for = "nothing" /\ Free.at = "idle"
  BY DEF IsTask, Free

LEMMA PluginsInitInv == PluginsInit => PInv
  <1> SUFFICES ASSUME PluginsInit PROVE PInv
    OBVIOUS
  <1>1. Tasks
    BY FreeIsTask DEF PluginsInit, Tasks
  <1>2. \A t \in Manager : managing[t].at = "idle"
    BY FreeIsTask DEF PluginsInit
  <1>3. OneByOne
    BY <1>2 DEF PluginsInit, OneByOne, InHand
  <1>4. NoStrayCallbacks
    BY DEF PluginsInit, NoStrayCallbacks
  <1> QED BY <1>1, <1>3, <1>4 DEF PInv

\* One task moves, and no other is at work unless commands are tangled.
LEMMA OneManages ==
    ASSUME PInv, NEW t \in Manager, NEW q, IsTask(q), managing' = [managing EXCEPT ![t] = q],
           ~tangled' => /\ \A p \in Manager \ {t} : managing[p].at = "idle"
                        /\ {l \in hooked' : l.v # "badCode"} \subseteq entry'
                        /\ q.at = "shutdown" => q.old = entry'
                        /\ q.at = "exec" => entry' = {}
                        /\ IF q.for = "install" THEN bak' = kept' ELSE file' = kept' /\ bak' = Absent
    PROVE  PInv'
  <1> USE DEF PInv
  <1>1. DOMAIN managing' = Manager /\ managing'[t] = q
        /\ \A p \in Manager \ {t} : managing'[p] = managing[p]
    BY DEF Tasks
  <1>2. Tasks'
    BY <1>1 DEF Tasks, IsTask
  <1>3. NoStrayCallbacks'
    BY DEF NoStrayCallbacks
  <1>4. ASSUME ~tangled'
        PROVE  OneByOne'
    <2>1. \A p \in Manager \ {t} : managing'[p].at = "idle"
      BY <1>1, <1>4
    <2>2. \A p \in Manager : InHand(managing[p])'
      <3>1. ASSUME NEW p \in Manager
            PROVE  InHand(managing[p])'
        <4>1. CASE p = t
          BY <1>1, <1>4, <4>1 DEF InHand
        <4>2. CASE p # t
          BY <2>1, <4>2 DEF InHand
        <4> QED BY <4>1, <4>2
      <3> QED BY <3>1
    <2>3. \A p \in Manager : managing'[p].at # "idle" => OnDisk(managing[p])'
      BY <1>1, <1>4, <2>1 DEF OnDisk
    <2>4. (\A p \in Manager : managing'[p].at = "idle") => file' = kept' /\ bak' = Absent
      <3>1. q.at = "idle" => q.for # "install"
        BY DEF IsTask
      <3> QED BY <1>1, <1>4, <3>1
    <2> QED BY <2>1, <2>2, <2>3, <2>4 DEF OneByOne
  <1> QED BY <1>2, <1>3, <1>4

\* Where a load begins, and an unload.
LEMMA LoadsOn ==
    ASSUME NEW t, NEW r, DOMAIN r = {"for", "at", "old", "new", "installed"},
           r.for \in {"install", "load"}, ToLoad(t, r)
    PROVE  \E q : /\ managing' = [managing EXCEPT ![t] = q] /\ IsTask(q) /\ q.for = r.for
                  /\ q.at = "shutdown" => q.old = entry
                  /\ q.at = "exec" => entry = {}
  <1>1. CASE ~Found
    <2>1. PICK q : q = [r EXCEPT !.at = "failed"]
      OBVIOUS
    <2>2. IsTask(q) /\ q.for = r.for /\ q.at = "failed"
      BY <2>1 DEF IsTask
    <2>3. managing' = [managing EXCEPT ![t] = q]
      BY <1>1, <2>1 DEF ToLoad, Put
    <2> QED BY <2>2, <2>3
  <1>2. CASE Found /\ entry # {}
    <2>1. PICK q : q = [[r EXCEPT !.installed = Installed] EXCEPT !.at = "shutdown", !.old = entry]
      OBVIOUS
    <2>2. IsTask(q) /\ q.for = r.for /\ q.at = "shutdown" /\ q.old = entry
      BY <2>1 DEF IsTask
    <2>3. managing' = [managing EXCEPT ![t] = q]
      BY <1>2, <2>1 DEF ToLoad, ToUnload, Put
    <2> QED BY <2>2, <2>3
  <1>3. CASE Found /\ entry = {}
    <2>1. PICK q : q = [r EXCEPT !.at = "exec", !.installed = Installed]
      OBVIOUS
    <2>2. IsTask(q) /\ q.for = r.for /\ q.at = "exec"
      BY <2>1 DEF IsTask
    <2>3. managing' = [managing EXCEPT ![t] = q]
      BY <1>3, <2>1 DEF ToLoad, Put
    <2> QED BY <1>3, <2>2, <2>3
  <1> QED BY <1>1, <1>2, <1>3

\* What a command of one task finds: it is alone.
LEMMA AtWork ==
    ASSUME PInv, NEW t \in Manager, managing[t].at # "idle", ~tangled
    PROVE  /\ \A p \in Manager \ {t} : managing[p].at = "idle"
           /\ InHand(managing[t]) /\ OnDisk(managing[t])
           /\ {l \in hooked : l.v # "badCode"} \subseteq entry
  BY DEF PInv, OneByOne, NoStrayCallbacks

\* A command that begins finds the file that was kept, and is alone or tangles.
LEMMA Begins ==
    ASSUME PInv, NEW t \in Manager, Takes(t), ~tangled'
    PROVE  /\ \A p \in Manager : managing[p].at = "idle"
           /\ file = kept /\ bak = Absent
           /\ {l \in hooked : l.v # "badCode"} \subseteq entry
  <1>1. \A p \in Manager : managing[p].at = "idle"
    BY DEF Takes, Doing, Busy
  <1>2. ~tangled
    BY DEF Takes
  <1> QED BY <1>1, <1>2 DEF PInv, OneByOne, NoStrayCallbacks

LEMMA CommandsInv ==
    ASSUME PInv, NEW t \in Manager,
           (\E v \in Version : Install(t, v)) \/ RemovePlugin(t) \/ Reload(t)
    PROVE  PInv'
  <1>1. CASE \E v \in Version : Install(t, v)
    <2>1. PICK v \in Version : Install(t, v)
      BY <1>1
    <2>2. PICK q : q = [Free EXCEPT !.for = "install", !.at = "load"]
      OBVIOUS
    <2>3. IsTask(q) /\ q.for = "install" /\ q.at = "load"
      BY <2>2 DEF IsTask, Free
    <2>4. /\ managing' = [managing EXCEPT ![t] = q] /\ Takes(t)
          /\ bak' = IF file # Absent THEN file ELSE bak
          /\ UNCHANGED <<entry, hooked, kept>>
      BY <2>1, <2>2 DEF Install, Put
    <2> QED BY <2>3, <2>4, Begins, OneManages
  <1>2. CASE RemovePlugin(t) \/ Reload(t)
    <2>1. Takes(t) /\ UNCHANGED <<file, bak, entry, hooked, kept>>
      BY <1>2 DEF RemovePlugin, Reload, Files
    <2>2. PICK q : /\ managing' = [managing EXCEPT ![t] = q] /\ IsTask(q) /\ q.for # "install"
                   /\ q.at = "shutdown" => q.old = entry
                   /\ q.at # "exec"
      <3>1. CASE Put(t, Free)
        BY <3>1, FreeIsTask DEF Put
      <3>2. ASSUME NEW f \in {"remove", "reload"}, ToUnload(t, [Free EXCEPT !.for = f])
            PROVE  \E q : /\ managing' = [managing EXCEPT ![t] = q] /\ IsTask(q) /\ q.for # "install"
                          /\ q.at = "shutdown" => q.old = entry
                          /\ q.at # "exec"
        <4>1. PICK q : q = [[Free EXCEPT !.for = f] EXCEPT !.at = "shutdown", !.old = entry]
          OBVIOUS
        <4>2. IsTask(q) /\ q.for = f /\ q.at = "shutdown" /\ q.old = entry
          BY <4>1 DEF IsTask, Free
        <4>3. managing' = [managing EXCEPT ![t] = q]
          BY <3>2, <4>1 DEF ToUnload, Put
        <4> QED BY <4>2, <4>3
      <3>3. CASE Put(t, [Free EXCEPT !.for = "remove", !.at = "delete"])
        <4>1. PICK q : q = [Free EXCEPT !.for = "remove", !.at = "delete"]
          OBVIOUS
        <4>2. IsTask(q) /\ q.for = "remove" /\ q.at = "delete"
          BY <4>1 DEF IsTask, Free
        <4>3. managing' = [managing EXCEPT ![t] = q]
          BY <3>3, <4>1 DEF Put
        <4> QED BY <4>2, <4>3
      <3> QED BY <1>2, <3>1, <3>2, <3>3 DEF RemovePlugin, Reload
    <2> QED BY <2>1, <2>2, Begins, OneManages
  <1> QED BY <1>1, <1>2

\* After a shutdown no callback of the entry is left, whatever came of it.
LEMMA UnloadInv ==
    ASSUME PInv, NEW t \in Manager, Unloaded(t) \/ ShutdownRaises(t)
    PROVE  PInv'
  <1>1. /\ managing[t].at = "shutdown" /\ UNCHANGED <<file, bak, kept, tangled>>
        /\ hooked' = hooked \ managing[t].old /\ entry' = {}
    BY DEF Unloaded, ShutdownRaises, Doing, Files, Unhook
  <1>2. IsTask(managing[t])
    BY DEF PInv, Tasks
  <1>3. PICK q : managing' = [managing EXCEPT ![t] = q] /\ IsTask(q) /\ q.at # "shutdown"
                 /\ (q.for = "install" <=> managing[t].for = "install")
    <2>1. CASE Unloaded(t)
      <3>1. PICK q : q = [managing[t] EXCEPT !.at = After[managing[t].for]]
        OBVIOUS
      <3>2. /\ DOMAIN q = {"for", "at", "old", "new", "installed"} /\ q.for = managing[t].for
            /\ q.at = After[managing[t].for]
        BY <1>2, <3>1 DEF IsTask
      <3>3. managing[t].for \in {"install", "load", "reload", "remove"}
        BY <1>1, <1>2 DEF IsTask
      <3>4. IsTask(q) /\ q.at # "shutdown"
        <4>1. q.for = "install" => q.at = "exec"
          BY <3>2 DEF After
        <4>2. q.for = "load" => q.at = "exec"
          BY <3>2 DEF After
        <4>3. q.for = "reload" => q.at = "reload"
          BY <3>2 DEF After
        <4>4. q.for = "remove" => q.at = "delete"
          BY <3>2 DEF After
        <4> QED BY <3>2, <3>3, <4>1, <4>2, <4>3, <4>4 DEF IsTask
      <3>5. managing' = [managing EXCEPT ![t] = q]
        BY <2>1, <3>1 DEF Unloaded, Put
      <3> QED BY <3>2, <3>4, <3>5
    <2>2. CASE ShutdownRaises(t) /\ managing[t].for \in {"remove", "reload"}
      BY <2>2, FreeIsTask DEF ShutdownRaises, Put
    <2>3. CASE ShutdownRaises(t) /\ managing[t].for \notin {"remove", "reload"}
      <3>1. PICK q : q = [managing[t] EXCEPT !.at = "failed"]
        OBVIOUS
      <3>2. IsTask(q) /\ q.for = managing[t].for /\ q.at = "failed"
        BY <1>1, <1>2, <2>3, <3>1 DEF IsTask
      <3>3. managing' = [managing EXCEPT ![t] = q]
        BY <2>3, <3>1 DEF ShutdownRaises, Put
      <3> QED BY <3>2, <3>3
    <2> QED BY <2>1, <2>2, <2>3
  <1>4. ASSUME ~tangled'
        PROVE  /\ \A p \in Manager \ {t} : managing[p].at = "idle"
               /\ {l \in hooked' : l.v # "badCode"} \subseteq entry'
               /\ IF q.for = "install" THEN bak' = kept' ELSE file' = kept' /\ bak' = Absent
    <2>1. managing[t].at # "idle" /\ ~tangled
      BY <1>1, <1>4
    <2>2. managing[t].old = entry
      BY <1>1, <2>1, AtWork DEF InHand
    <2>3. {l \in hooked' : l.v # "badCode"} \subseteq entry'
      BY <1>1, <2>1, <2>2, AtWork
    <2>4. IF q.for = "install" THEN bak' = kept' ELSE file' = kept' /\ bak' = Absent
      BY <1>1, <1>3, <2>1, AtWork DEF OnDisk
    <2> QED BY <2>1, <2>3, <2>4, AtWork
  <1> QED BY <1>1, <1>3, <1>4, OneManages

\* The module is run: what it registered has an entry, unless it raised.
LEMMA ExecInv ==
    ASSUME PInv, NEW t \in Manager, Exec(t)
    PROVE  PInv'
  <1>1. managing[t].at = "exec" /\ UNCHANGED <<file, bak, kept, tangled>>
    BY DEF Exec, Doing, Files
  <1>2. IsTask(managing[t])
    BY DEF PInv, Tasks
  <1>3. PICK l : /\ l = [id |-> loads + 1, v |-> Source, installed |-> managing[t].installed]
                 /\ hooked' = IF Found THEN hooked \cup {l} ELSE hooked
                 /\ entry' = IF ~Found \/ Source = "badCode" THEN entry ELSE {l}
                 /\ Put(t, [managing[t] EXCEPT
                      !.at = IF ~Found \/ Source = "badCode" THEN "failed" ELSE "startup", !.new = {l}])
    BY DEF Exec
  <1>4. PICK q : q = [managing[t] EXCEPT
                    !.at = IF ~Found \/ Source = "badCode" THEN "failed" ELSE "startup", !.new = {l}]
    OBVIOUS
  <1>5. IsTask(q) /\ q.for = managing[t].for /\ q.at \in {"failed", "startup"}
    <2>1. /\ DOMAIN q = {"for", "at", "old", "new", "installed"} /\ q.for = managing[t].for
          /\ q.at = IF ~Found \/ Source = "badCode" THEN "failed" ELSE "startup"
      BY <1>2, <1>4 DEF IsTask
    <2>2. q.at \in {"failed", "startup"}
      BY <2>1
    <2> QED BY <1>1, <1>2, <2>1, <2>2 DEF IsTask
  <1>6. managing' = [managing EXCEPT ![t] = q]
    BY <1>3, <1>4 DEF Put
  <1>7. ASSUME ~tangled'
        PROVE  /\ \A p \in Manager \ {t} : managing[p].at = "idle"
               /\ {h \in hooked' : h.v # "badCode"} \subseteq entry'
               /\ IF q.for = "install" THEN bak' = kept' ELSE file' = kept' /\ bak' = Absent
    <2>1. managing[t].at # "idle" /\ ~tangled
      BY <1>1, <1>7
    <2>2. entry = {} /\ {h \in hooked : h.v # "badCode"} = {}
      BY <1>1, <2>1, AtWork DEF InHand
    <2>3. {h \in hooked' : h.v # "badCode"} \subseteq entry'
      <3>1. l.v = Source
        BY <1>3
      <3> QED BY <1>3, <2>2, <3>1
    <2>4. IF q.for = "install" THEN bak' = kept' ELSE file' = kept' /\ bak' = Absent
      BY <1>1, <1>5, <2>1, AtWork DEF OnDisk
    <2> QED BY <2>1, <2>3, <2>4, AtWork
  <1> QED BY <1>5, <1>6, <1>7, OneManages

\* The startup, and the load that begins or begins again.
LEMMA LoadInv ==
    ASSUME PInv, NEW t \in Manager, Startup(t) \/ Load(t)
    PROVE  PInv'
  <1>1. /\ managing[t].at \in {"startup", "load", "reload"}
        /\ UNCHANGED <<file, bak, kept, tangled, entry, hooked>>
    BY DEF Startup, Load, Doing, Files
  <1>2. IsTask(managing[t])
    BY DEF PInv, Tasks
  <1>3. PICK q : /\ managing' = [managing EXCEPT ![t] = q] /\ IsTask(q)
                 /\ (q.for = "install" <=> managing[t].for = "install")
                 /\ q.at = "shutdown" => q.old = entry
                 /\ q.at = "exec" => entry = {}
    <2>1. CASE Startup(t)
      <3>0. \/ Put(t, [managing[t] EXCEPT !.at = "failed"])
            \/ Put(t, [managing[t] EXCEPT !.at = "loaded"])
        <4>1. CASE \E l \in managing[t].new : l.v = "badStart"
          BY <2>1, <4>1 DEF Startup
        <4>2. CASE ~ \E l \in managing[t].new : l.v = "badStart"
          BY <2>1, <4>2 DEF Startup
        <4> QED BY <4>1, <4>2
      <3>1. PICK at \in {"failed", "loaded"} : Put(t, [managing[t] EXCEPT !.at = at])
        BY <3>0
      <3>2. PICK q : q = [managing[t] EXCEPT !.at = at]
        OBVIOUS
      <3>3. DOMAIN q = {"for", "at", "old", "new", "installed"} /\ q.for = managing[t].for /\ q.at = at
        BY <1>2, <3>2 DEF IsTask
      <3>4. managing[t].at = "startup"
        BY <2>1 DEF Startup, Doing
      <3>5. IsTask(q)
        BY <1>2, <3>3, <3>4 DEF IsTask
      <3>6. managing' = [managing EXCEPT ![t] = q]
        BY <3>1, <3>2 DEF Put
      <3> QED BY <3>3, <3>5, <3>6
    <2>2. CASE Load(t)
      <3>1. PICK r : r = [managing[t] EXCEPT !.for = IF @ = "reload" THEN "load" ELSE @]
        OBVIOUS
      <3>2. /\ DOMAIN r = {"for", "at", "old", "new", "installed"} /\ r.at = managing[t].at
            /\ r.for = IF managing[t].for = "reload" THEN "load" ELSE managing[t].for
        BY <1>2, <3>1 DEF IsTask
      <3>3. managing[t].at \in {"load", "reload"}
        BY <2>2 DEF Load, Doing
      <3>4. r.for \in {"install", "load"} /\ (r.for = "install" <=> managing[t].for = "install")
        BY <1>2, <3>2, <3>3 DEF IsTask
      <3>5. ToLoad(t, r)
        BY <2>2, <3>1 DEF Load
      <3>6. PICK q : /\ managing' = [managing EXCEPT ![t] = q] /\ IsTask(q) /\ q.for = r.for
                     /\ q.at = "shutdown" => q.old = entry
                     /\ q.at = "exec" => entry = {}
        BY <3>2, <3>4, <3>5, LoadsOn
      <3> QED BY <3>4, <3>6
    <2> QED BY <2>1, <2>2
  <1>4. ASSUME ~tangled'
        PROVE  /\ \A p \in Manager \ {t} : managing[p].at = "idle"
               /\ {h \in hooked' : h.v # "badCode"} \subseteq entry'
               /\ IF q.for = "install" THEN bak' = kept' ELSE file' = kept' /\ bak' = Absent
    <2>1. managing[t].at # "idle" /\ ~tangled
      BY <1>1, <1>4
    <2> QED BY <1>1, <1>3, <2>1, AtWork DEF OnDisk
  <1> QED BY <1>1, <1>3, <1>4, OneManages

\* A command that ends well keeps its file; an install that fails takes it back.
LEMMA EndsInv ==
    ASSUME PInv, NEW t \in Manager, Succeeds(t) \/ RollBack(t) \/ GivesUp(t) \/ Delete(t)
    PROVE  PInv'
  <1>1. managing[t].at \in {"loaded", "failed", "delete"} /\ UNCHANGED <<entry, hooked, tangled>>
    BY DEF Succeeds, RollBack, GivesUp, Delete, Doing
  <1>2. IsTask(managing[t])
    BY DEF PInv, Tasks
  <1>3. PICK q : /\ managing' = [managing EXCEPT ![t] = q] /\ IsTask(q)
                 /\ q.for # "install" /\ q.at \in {"idle", "load"}
    <2>1. CASE Put(t, Free)
      BY <2>1, FreeIsTask DEF Put
    <2>2. CASE Put(t, [Free EXCEPT !.for = "load", !.at = "load"])
      <3>1. PICK q : q = [Free EXCEPT !.for = "load", !.at = "load"]
        OBVIOUS
      <3>2. IsTask(q) /\ q.for = "load" /\ q.at = "load"
        BY <3>1 DEF IsTask, Free
      <3>3. managing' = [managing EXCEPT ![t] = q]
        BY <2>2, <3>1 DEF Put
      <3> QED BY <3>2, <3>3
    <2> QED BY <2>1, <2>2 DEF Succeeds, RollBack, GivesUp, Delete
  <1>4. ASSUME ~tangled
        PROVE  file' = kept' /\ bak' = Absent
    <2>1. OnDisk(managing[t])
      BY <1>1, <1>4, AtWork
    <2>2. CASE Succeeds(t)
      BY <2>1, <2>2 DEF Succeeds, OnDisk
    <2>3. CASE RollBack(t)
      BY <2>1, <2>3 DEF RollBack, OnDisk
    <2>4. CASE GivesUp(t)
      BY <2>1, <2>4 DEF GivesUp, OnDisk, Files
    <2>5. CASE Delete(t)
      <3>1. managing[t].for = "remove"
        BY <1>2, <2>5 DEF Delete, Doing, IsTask
      <3> QED BY <2>1, <2>5, <3>1 DEF Delete, OnDisk
    <2> QED BY <2>2, <2>3, <2>4, <2>5
  <1>5. ASSUME ~tangled
        PROVE  /\ \A p \in Manager \ {t} : managing[p].at = "idle"
               /\ {h \in hooked : h.v # "badCode"} \subseteq entry
    BY <1>1, <1>5, AtWork
  <1> QED BY <1>1, <1>3, <1>4, <1>5, OneManages

\* After the death of a process one task loads what is found; a command cut off is
\* tangled with what comes.
LEMMA PluginsCrashInv ==
    ASSUME PInv, PluginsCrash
    PROVE  PInv'
  <1>1. /\ entry' = {} /\ hooked' = {} /\ UNCHANGED <<file, bak, kept>>
        /\ tangled' = (tangled \/ \E t \in Manager : managing[t].at # "idle")
    BY DEF PluginsCrash, Files
  <1>2. PICK t, q :
           /\ t \in Manager
           /\ managing' = [p \in Manager |-> IF p = t THEN q ELSE Free]
           /\ IsTask(q) /\ q.for # "install" /\ q.at \in {"idle", "load"}
    <2>1. PICK t \in Manager : managing' = [p \in Manager |-> IF p = t /\ Found
                                   THEN [Free EXCEPT !.for = "load", !.at = "load"] ELSE Free]
      BY DEF PluginsCrash
    <2>2. PICK r : r = [Free EXCEPT !.for = "load", !.at = "load"]
      OBVIOUS
    <2>3. IsTask(r) /\ r.for = "load" /\ r.at = "load"
      BY <2>2 DEF IsTask, Free
    <2>4. CASE Found
      BY <2>1, <2>2, <2>3, <2>4
    <2>5. CASE ~Found
      BY <2>1, <2>5, FreeIsTask
    <2> QED BY <2>4, <2>5
  <1>3. Tasks'
    BY <1>2, FreeIsTask DEF Tasks, IsTask
  <1>4. NoStrayCallbacks'
    BY <1>1 DEF NoStrayCallbacks
  <1>5. ASSUME ~tangled'
        PROVE  OneByOne'
    <2>1. file' = kept' /\ bak' = Absent
      BY <1>1, <1>5 DEF PInv, OneByOne
    <2>2. \A p \in Manager : managing'[p].at # "idle" => p = t
      BY <1>2, FreeIsTask
    <2>3. \A p \in Manager : managing'[p].for # "install" /\ managing'[p].at \notin {"shutdown", "exec"}
      BY <1>2, FreeIsTask
    <2> QED BY <2>1, <2>2, <2>3 DEF OneByOne, InHand, OnDisk
  <1> QED BY <1>3, <1>4, <1>5 DEF PInv

\* Every step keeps the invariant.
LEMMA PluginsStepInv == PInv /\ [PluginsNext]_<<envVars, pluginVars>> => PInv'
  <1> SUFFICES ASSUME PInv, [PluginsNext]_<<envVars, pluginVars>> PROVE PInv'
    OBVIOUS
  <1>1. ASSUME UNCHANGED <<envVars, pluginVars>>
        PROVE  PInv'
    BY <1>1 DEF pluginVars, PInv, Tasks, IsTask, NoStrayCallbacks, OneByOne, InHand, OnDisk
  <1> QED BY <1>1, CommandsInv, UnloadInv, ExecInv, LoadInv, EndsInv, PluginsCrashInv DEF PluginsNext

\* What the client calls, what is listed and what is on disk are one plugin:
\* PluginsAgree, for any number of commands, failures and restarts.
THEOREM PluginsAlwaysAgree == PluginsSpec => []PluginsAgree
  <1>1. PluginsSpec => []PInv
    BY PluginsInitInv, PluginsStepInv, PTL DEF PluginsSpec
  <1> QED BY <1>1, PluginsHold, PTL

-----------------------------------------------------------------------------
(* The games.                                                              *)

GamesNext ==
    \/ \E c \in Chat :
         \/ StartGuess(c) \/ CancelGuess(c) \/ Answer(c)
         \/ \E how \in {"right", "wrong", "outside"} : Guess(c, how)
         \/ \E p \in Player : AskQuiz(p, c)
    \/ \E p \in Player :
         \/ QuizFetched(p) \/ QuizFails(p) \/ QuizStored(p)
         \/ QuizShown(p) \/ QuizNotShown(p) \/ AskDie(p)
         \/ \E b \in BOOLEAN : ThrowLands(p, b) \/ ThrowFails(p, b)
         \/ ThrowRead(p) \/ DieDropped(p) \/ DieStays(p) \/ DieGivenUp(p)
    \/ GamesCrash

GamesSpec == EnvInit /\ GamesInit /\ [][GamesNext]_<<envVars, gamesVars>>

-----------------------------------------------------------------------------
(* Guessing: keys are told apart by when they were added.                  *)

Game == [chat : Chat, tries : Nat, born : Nat]

GuessTable ==
    /\ guesses \in SUBSET Game
    /\ IsFiniteSet(guesses)
    /\ orders \in Nat
    /\ \A g \in guesses : g.born <= orders
    /\ \A g, h \in guesses : g.born = h.born => g = h

\* Where the naturals are well ordered, a set of them has a least element.
LEMMA LeastInOrder ==
    ASSUME NEW R, IsWellFoundedOn(R, Nat), \A x, y \in Nat : y < x => <<y, x>> \in R,
           NEW S \in SUBSET Nat, S # {}
    PROVE  \E x \in S : \A y \in S : x <= y
  <1>1. PICK x \in S : \A y \in S : ~(<<y, x>> \in R)
    BY WFMin
  <1>2. ASSUME NEW y \in S
        PROVE  x <= y
    <2>1. x \in Nat /\ y \in Nat
      OBVIOUS
    <2>2. ~(y < x)
      BY <1>1, <2>1
    <2> QED BY <2>1, <2>2
  <1> QED BY <1>2

\* Of the games in a table one has the oldest key.
LEMMA OldestGame ==
    ASSUME GuessTable, guesses # {}
    PROVE  \E g \in guesses : Older(g) = {}
  <1> DEFINE S == {g.born : g \in guesses}
  <1>1. S \in SUBSET Nat /\ S # {}
    BY DEF GuessTable, Game
  <1>2. \E x \in S : \A y \in S : x <= y
    <2>1. \A x, y \in Nat : y < x => <<y, x>> \in OpToRel(<, Nat)
      BY DEF OpToRel
    <2> HIDE DEF S
    <2> QED BY <1>1, <2>1, NatLessThanWellFounded, LeastInOrder
  <1>3. PICK g \in guesses : \A h \in guesses : g.born <= h.born
    BY <1>2
  <1>4. \A h \in guesses : ~(h.born < g.born)
    BY <1>3 DEF GuessTable, Game
  <1> QED BY <1>3, <1>4 DEF Older

\* A full table loses its oldest game at least.
LEMMA RoomIsMade ==
    ASSUME GamesAssumption, GuessTable, Cardinality(guesses) <= MaxGames
    PROVE  Room \in SUBSET guesses /\ IsFiniteSet(Room) /\ Cardinality(Room) < MaxGames
  <1>1. Cardinality(guesses) \in Nat
    BY FS_CardinalityType DEF GuessTable
  <1>2. CASE Cardinality(guesses) < MaxGames
    BY <1>1, <1>2 DEF Room, GamesAssumption, GuessTable
  <1>3. CASE Cardinality(guesses) = MaxGames
    <2>1. guesses # {}
      BY <1>3, FS_EmptySet DEF GamesAssumption
    <2>2. PICK g \in guesses : Older(g) = {}
      BY <2>1, OldestGame
    <2>3. Half \in Nat /\ Half > 0
      BY DEF Half, GamesAssumption
    <2>4. Room \in SUBSET (guesses \ {g})
      BY <1>1, <1>3, <2>2, <2>3, FS_EmptySet DEF Room, GamesAssumption
    <2>5. IsFiniteSet(guesses \ {g}) /\ Cardinality(guesses \ {g}) = MaxGames - 1
      BY <1>3, <2>2, FS_RemoveElement DEF GuessTable
    <2>6. IsFiniteSet(Room) /\ Cardinality(Room) <= MaxGames - 1
      BY <2>4, <2>5, FS_Subset
    <2>7. Cardinality(Room) \in Nat
      BY <2>6, FS_CardinalityType
    <2> QED BY <2>4, <2>6, <2>7 DEF GamesAssumption
  <1> QED BY <1>1, <1>2, <1>3 DEF GamesAssumption

\* What is lost has half a table of newer games after it.
LEMMA LostAreOld ==
    ASSUME GamesAssumption, GuessTable, NEW g \in guesses, g \notin Room
    PROVE  Cardinality(Newer(g)) >= MaxGames - Half
  <1> DEFINE A == Older(g)
             B == Newer(g)
  <1>1. A \in SUBSET guesses /\ B \in SUBSET guesses /\ A \cap B = {}
    BY DEF Older, Newer, GuessTable, Game
  <1>2. guesses = (A \cup B) \cup {g}
    BY DEF Older, Newer, GuessTable, Game
  <1>3. g \notin A \cup B
    BY DEF Older, Newer, GuessTable, Game
  <1>4. Cardinality(guesses) >= MaxGames /\ ~(Cardinality(A) >= Half)
    BY DEF Room
  <1> HIDE DEF A, B
  <1>5. IsFiniteSet(guesses)
    BY DEF GuessTable
  <1>6. IsFiniteSet(A) /\ IsFiniteSet(B)
    BY <1>1, <1>5, FS_Subset
  <1>7. /\ Cardinality(A) \in Nat /\ Cardinality(B) \in Nat
        /\ Cardinality(guesses) \in Nat
    BY <1>5, <1>6, FS_CardinalityType
  <1>8. IsFiniteSet(A \cup B) /\ Cardinality(A \cup B) = Cardinality(A) + Cardinality(B)
    <2>1. Cardinality(A \cap B) = 0
      BY <1>1, FS_EmptySet
    <2>2. /\ IsFiniteSet(A \cup B)
          /\ Cardinality(A \cup B) = Cardinality(A) + Cardinality(B) - Cardinality(A \cap B)
      BY <1>6, FS_Union
    <2>3. Cardinality(A \cup B) = Cardinality(A) + Cardinality(B)
      BY <1>7, <2>1, <2>2
    <2> QED BY <2>2, <2>3
  <1>9. Cardinality(guesses) = Cardinality(A) + Cardinality(B) + 1
    BY <1>2, <1>3, <1>8, FS_AddElement
  <1>10. Half \in Nat
    BY DEF Half, GamesAssumption
  <1>11. Cardinality(B) >= MaxGames - Half
    BY <1>4, <1>7, <1>9, <1>10 DEF GamesAssumption
  <1> QED BY <1>11 DEF B


\* The table is within its bound, and what it lost was in its older half.
GuessInv ==
    /\ GuessTable
    /\ Cardinality(guesses) <= MaxGames
    /\ \A e \in evicted : e[2] >= MaxGames - Half

\* Games that keep their keys keep their places, and are no more.
LEMMA KeysKept ==
    ASSUME GuessTable, NEW T \in SUBSET guesses, NEW U, orders' \in Nat, orders <= orders',
           \A u \in U : u \in Game /\ \E g \in T : u.born = g.born,
           \A u, v \in U : u.born = v.born => u = v, guesses' = U
    PROVE  GuessTable' /\ Cardinality(guesses') <= Cardinality(T)
  <1> DEFINE of(u) == CHOOSE g \in T : u.born = g.born
             f == [u \in U |-> of(u)]
  <1>1. IsFiniteSet(T)
    BY FS_Subset DEF GuessTable
  <1>2. \A u \in U : of(u) \in T /\ u.born = of(u).born
    OBVIOUS
  <1>3. f \in Injection(U, T)
    BY <1>2 DEF Injection, IsInjective
  <1>4. IsFiniteSet(U) /\ Cardinality(U) <= Cardinality(T)
    <2> HIDE DEF f
    <2> QED BY <1>1, <1>3, FS_Injection
  <1>5. \A u \in U : u.born <= orders'
    BY <1>2 DEF GuessTable, Game
  <1> QED BY <1>4, <1>5 DEF GuessTable

LEMMA StartGuessInv ==
    ASSUME GamesAssumption, GuessInv, NEW c \in Chat, StartGuess(c)
    PROVE  GuessInv'
  <1>1. orders \in Nat /\ orders' = orders + 1
    BY DEF GuessInv, GuessTable, StartGuess, Ordered
  <1>2. Room \in SUBSET guesses /\ IsFiniteSet(Room) /\ Cardinality(Room) < MaxGames
    BY RoomIsMade DEF GuessInv
  <1>3. Cardinality(Room) \in Nat /\ MaxGames \in Nat
    BY <1>2, FS_CardinalityType DEF GamesAssumption
  <1>4. \A e \in evicted' : e[2] >= MaxGames - Half
    <2>1. ASSUME NEW g \in guesses \ Room
          PROVE  Cardinality(Newer(g)) >= MaxGames - Half
      BY LostAreOld DEF GuessInv
    <2>2. evicted' = evicted \cup {<<g.born, Cardinality(Newer(g))>> : g \in guesses \ Room}
      BY DEF StartGuess
    <2> QED BY <2>1, <2>2 DEF GuessInv
  <1>5. CASE \E g \in Room : g.chat = c
    <2> DEFINE again(g) == IF g.chat = c THEN [g EXCEPT !.tries = 0] ELSE g
               U == {again(g) : g \in Room}
    <2>1. guesses' = U
      BY <1>5 DEF StartGuess, Begin
    <2>2. \A g \in Room : again(g) \in Game /\ again(g).born = g.born
      BY <1>2 DEF GuessInv, GuessTable, Game
    <2>3. \A u \in U : u \in Game /\ \E g \in Room : u.born = g.born
      BY <2>2
    <2>4. \A u, v \in U : u.born = v.born => u = v
      BY <1>2, <2>2 DEF GuessInv, GuessTable
    <2> HIDE DEF U
    <2>5. GuessTable' /\ Cardinality(guesses') <= Cardinality(Room)
      BY <1>1, <1>2, <2>1, <2>3, <2>4, KeysKept DEF GuessInv
    <2>6. Cardinality(guesses') \in Nat
      BY <2>5, FS_CardinalityType DEF GuessTable
    <2>7. Cardinality(guesses') <= MaxGames
      BY <1>2, <1>3, <2>5, <2>6
    <2> QED BY <1>4, <2>5, <2>7 DEF GuessInv, Half
  <1>6. CASE ~\E g \in Room : g.chat = c
    <2> DEFINE n == [chat |-> c, tries |-> 0, born |-> orders + 1]
    <2>1. guesses' = Room \cup {n}
      BY <1>6 DEF StartGuess, Begin
    <2>2. n \in Game /\ n.born = orders + 1
      BY <1>1 DEF Game
    <2>3. \A g \in Room : g \in Game /\ g.born <= orders
      BY <1>2 DEF GuessInv, GuessTable
    <2>4. n \notin Room
      BY <1>1, <2>2, <2>3 DEF Game
    <2> HIDE DEF n
    <2>5. IsFiniteSet(guesses') /\ Cardinality(guesses') = Cardinality(Room) + 1
      BY <1>2, <2>1, <2>4, FS_AddElement
    <2>6. Cardinality(guesses') <= MaxGames
      BY <1>2, <1>3, <2>5
    <2>7. \A g \in guesses' : g \in Game /\ g.born <= orders'
      BY <1>1, <2>1, <2>2, <2>3 DEF Game
    <2>8. \A g, h \in guesses' : g.born = h.born => g = h
      <3>1. \A g \in Room : g.born # n.born
        BY <1>1, <2>2, <2>3 DEF Game
      <3> QED BY <1>2, <2>1, <3>1 DEF GuessInv, GuessTable
    <2>9. GuessTable'
      BY <1>1, <2>5, <2>7, <2>8 DEF GuessTable
    <2> QED BY <1>4, <2>6, <2>9 DEF GuessInv, Half
  <1> QED BY <1>5, <1>6

\* Some of the games stay as they are, or are tried again.
LEMMA GamesGoOn ==
    ASSUME GamesAssumption, GuessInv, NEW T \in SUBSET guesses, NEW U, guesses' = U,
           \A u \in U : u \in Game /\ \E g \in T : u.born = g.born,
           \A u, v \in U : u.born = v.born => u = v,
           orders' \in Nat, orders <= orders', UNCHANGED evicted
    PROVE  GuessInv'
  <1>1. GuessTable' /\ Cardinality(guesses') <= Cardinality(T)
    BY KeysKept DEF GuessInv
  <1>2. Cardinality(T) <= Cardinality(guesses) /\ IsFiniteSet(T) /\ IsFiniteSet(guesses')
    BY <1>1, FS_Subset DEF GuessInv, GuessTable
  <1>3. /\ Cardinality(T) \in Nat /\ Cardinality(guesses) \in Nat
        /\ Cardinality(guesses') \in Nat
    BY <1>2, FS_CardinalityType DEF GuessInv, GuessTable
  <1>4. Cardinality(guesses') <= MaxGames
    BY <1>1, <1>2, <1>3 DEF GuessInv, GamesAssumption
  <1> QED BY <1>1, <1>4 DEF GuessInv, Half

LEMMA GuessStep ==
    ASSUME GamesAssumption, GuessInv, [GamesNext]_<<envVars, gamesVars>>
    PROVE  GuessInv'
  <1>1. ASSUME NEW c \in Chat, StartGuess(c)
        PROVE  GuessInv'
    BY <1>1, StartGuessInv
  <1>2. ASSUME NEW c \in Chat, CancelGuess(c) \/ \E how \in {"right", "wrong", "outside"} : Guess(c, how)
        PROVE  GuessInv'
    <2> DEFINE try(g) == IF g.chat = c THEN [g EXCEPT !.tries = @ + 1] ELSE g
               U == {try(g) : g \in guesses}
    <2>1. /\ orders' \in Nat /\ orders <= orders' /\ UNCHANGED evicted
      BY <1>2 DEF CancelGuess, Guess, Ordered, GuessInv, GuessTable
    <2>2. CASE guesses' \in SUBSET guesses
      BY <2>1, <2>2, GamesGoOn DEF GuessInv, GuessTable
    <2>3. CASE guesses' = U
      <3>1. \A g \in guesses : try(g) \in Game /\ try(g).born = g.born
        BY DEF GuessInv, GuessTable, Game
      <3>2. \A u \in U : u \in Game /\ \E g \in guesses : u.born = g.born
        BY <3>1
      <3>3. ASSUME NEW u \in U, NEW v \in U, u.born = v.born
            PROVE  u = v
        <4>1. PICK g \in guesses : u = try(g)
          OBVIOUS
        <4>2. PICK h \in guesses : v = try(h)
          OBVIOUS
        <4> HIDE DEF try
        <4>3. g.born = h.born
          BY <3>1, <3>3, <4>1, <4>2
        <4>4. g = h
          BY <4>3 DEF GuessInv, GuessTable
        <4> QED BY <4>1, <4>2, <4>4
      <3> HIDE DEF U
      <3>4. guesses \in SUBSET guesses
        OBVIOUS
      <3> QED BY <2>1, <2>3, <3>2, <3>3, <3>4, GamesGoOn
    <2>4. CASE CancelGuess(c)
      BY <2>2, <2>4 DEF CancelGuess
    <2>5. ASSUME NEW how \in {"right", "wrong", "outside"}, Guess(c, how)
          PROVE  GuessInv'
      <3>1. CASE how = "right"
        BY <2>2, <2>5, <3>1 DEF Guess
      <3>2. CASE how = "wrong"
        BY <2>3, <2>5, <3>2 DEF Guess
      <3>3. CASE how = "outside"
        BY <2>2, <2>5, <3>3 DEF Guess
      <3> QED BY <3>1, <3>2, <3>3
    <2> QED BY <1>2, <2>4, <2>5
  <1>3. CASE GamesCrash
    BY <1>3, FS_EmptySet DEF GamesCrash, Fault, GuessInv, GuessTable, GamesAssumption, Half
  <1>4. ASSUME UNCHANGED <<guesses, evicted>>, orders' \in {orders, orders + 1}
        PROVE  GuessInv'
    <2>1. orders' \in Nat /\ orders <= orders'
      BY <1>4 DEF GuessInv, GuessTable
    <2> QED BY <1>4, <2>1, GamesGoOn DEF GuessInv, GuessTable
  <1>5. ASSUME NEW c \in Chat, Answer(c) \/ \E p \in Player : AskQuiz(p, c)
        PROVE  GuessInv'
    BY <1>4, <1>5 DEF Answer, AskQuiz, NotQuizzing, Ordered
  <1>6. ASSUME NEW p \in Player,
               \/ QuizFetched(p) \/ QuizFails(p) \/ QuizStored(p) \/ QuizShown(p)
               \/ QuizNotShown(p)
        PROVE  GuessInv'
    BY <1>4, <1>6 DEF QuizFetched, QuizFails, QuizStored, QuizShown, QuizNotShown, NotQuizzing,
         Calm, Fault, envVars
  <1>7. ASSUME NEW p \in Player, NEW b \in BOOLEAN,
               \/ AskDie(p) \/ ThrowLands(p, b) \/ ThrowFails(p, b) \/ ThrowRead(p)
               \/ DieDropped(p) \/ DieStays(p) \/ DieGivenUp(p)
        PROVE  GuessInv'
    BY <1>4, <1>7 DEF AskDie, ThrowLands, ThrowFails, ThrowRead, DieDropped, DieStays,
         DieGivenUp, NotThrowing, Calm, Fault, Ordered, envVars
  <1>8. CASE UNCHANGED <<envVars, gamesVars>>
    BY <1>4, <1>8 DEF envVars, gamesVars
  <1> QED BY <1>1, <1>2, <1>3, <1>5, <1>6, <1>7, <1>8 DEF GamesNext

-----------------------------------------------------------------------------
(* The tasks: each command has a number of its own.                        *)

QuizTurn == [at : {"idle", "fetch", "translate", "show", "throw", "read", "drop"},
         id : Nat, chat : Chat \cup {"none"}, left : Int]

Coming == {"fetch", "translate"}

Players ==
    /\ orders \in Nat
    /\ playing \in [Player -> QuizTurn]
    /\ \A p \in Player : /\ (playing[p].at = "idle" <=> playing[p].id = 0)
                         /\ playing[p].id <= orders
                         /\ playing[p].at \in Coming \/ playing[p].at = "show" => playing[p].chat \in Chat
    /\ \A p, q \in Player : playing[p].id = playing[q].id /\ p # q => playing[p].id = 0

\* A player goes on with its command, begins one, or ends it.
Moves(p, r) ==
    /\ r \in QuizTurn /\ (r.at = "idle" <=> r.id = 0)
    /\ r.id = 0 \/ r.id = playing[p].id \/ (r.id = orders' /\ orders' = orders + 1)
    /\ r.at \in {"fetch", "translate", "show"} => r.chat \in Chat
    /\ orders' \in Nat /\ orders <= orders'
    /\ Play(p, r)

LEMMA PlayersMove ==
    ASSUME Players, NEW p \in Player, NEW r, Moves(p, r)
    PROVE  Players'
  <1>1. playing' = [playing EXCEPT ![p] = r] /\ playing' \in [Player -> QuizTurn]
    BY DEF Players, Moves, Play
  <1>2. \A q \in Player : playing'[q] = IF q = p THEN r ELSE playing[q]
    BY <1>1 DEF Players
  <1>3. \A q \in Player : playing[q].id \in Nat /\ playing[q].id <= orders
    BY DEF Players, QuizTurn
  <1>4. r.id \in Nat /\ r.id <= orders' /\ orders \in Nat
    BY <1>3 DEF Moves, QuizTurn, Players
  <1>5. \A q \in Player : /\ (playing'[q].at = "idle" <=> playing'[q].id = 0)
                          /\ playing'[q].at \in Coming \/ playing'[q].at = "show" => playing'[q].chat \in Chat
    BY <1>2 DEF Players, Moves, Coming
  <1>6. \A q \in Player : playing'[q].id <= orders'
    BY <1>2, <1>3, <1>4 DEF Moves
  <1>7. ASSUME NEW q \in Player, q # p, r.id = playing[q].id
        PROVE  r.id = 0
    BY <1>3, <1>7 DEF Moves, Players
  <1>8. \A q, s \in Player : playing'[q].id = playing'[s].id /\ q # s => playing'[q].id = 0
    BY <1>2, <1>7 DEF Players
  <1> QED BY <1>1, <1>4, <1>5, <1>6, <1>8 DEF Players, Moves

-----------------------------------------------------------------------------
(* The quiz: a question that may be answered was never judged before.      *)

Open == {q \in Nat : \E c \in Chat : q \in quiz[c]}

QuizInv ==
    /\ Players
    /\ quiz \in [Chat -> SUBSET Nat] /\ score \in [Chat -> Nat]
    /\ judged \in SUBSET (Nat \X BOOLEAN \X Chat) /\ IsFiniteSet(judged)
    /\ \A c \in Chat : quiz[c] = {} \/ \E q \in 1..orders : quiz[c] = {q}
    /\ \A c, d \in Chat : quiz[c] \cap quiz[d] # {} => c = d
    /\ \A j \in judged : j[1] <= orders /\ j[1] \notin Open
    /\ \A p \in Player : playing[p].at \in Coming => /\ playing[p].id \notin Open
                                        /\ \A j \in judged : j[1] # playing[p].id
    /\ \A c \in Chat : \A q \in quiz[c] :
         q \in shown \cup unshown \/ \E p \in Player : playing[p].at = "show" /\ playing[p].id = q
    /\ QuizCountsOnce

\* What is asked and judged stays; a question leaves the screen's way shown or not.
LEMMA QuizStays ==
    ASSUME QuizInv, Players', orders <= orders', UNCHANGED <<quiz, score, judged>>,
           shown \cup unshown \subseteq shown' \cup unshown', unshown \subseteq unshown',
           \A p \in Player : playing'[p].at \in Coming =>
             playing'[p].id > orders \/ (playing[p].at \in Coming /\ playing'[p].id = playing[p].id),
           \A p \in Player : playing[p].at = "show" =>
             \/ playing'[p].at = "show" /\ playing'[p].id = playing[p].id
             \/ playing[p].id \in shown' \cup unshown'
    PROVE  QuizInv'
  <1>1. orders \in Nat /\ orders' \in Nat
    BY DEF QuizInv, Players
  <1>2. \A q \in Open : q \in 1..orders
    BY DEF QuizInv, Open
  <1>3. Open' = Open
    BY DEF Open
  <1>4. \A c \in Chat : quiz'[c] = {} \/ \E q \in 1..orders' : quiz'[c] = {q}
    BY <1>1 DEF QuizInv
  <1>5. \A j \in judged' : j[1] \in Nat /\ j[1] <= orders /\ j[1] <= orders' /\ j[1] \notin Open'
    BY <1>1, <1>3 DEF QuizInv
  <1>6. ASSUME NEW p \in Player, playing'[p].at \in Coming
        PROVE  playing'[p].id \notin Open' /\ \A j \in judged' : j[1] # playing'[p].id
    <2>1. CASE playing'[p].id > orders
      BY <1>1, <1>2, <1>3, <1>5, <2>1
    <2>2. CASE playing[p].at \in Coming /\ playing'[p].id = playing[p].id
      BY <1>3, <2>2 DEF QuizInv
    <2> QED BY <1>6, <2>1, <2>2
  <1>7. \A c \in Chat : \A q \in quiz'[c] :
          q \in shown' \cup unshown' \/ \E p \in Player : playing'[p].at = "show" /\ playing'[p].id = q
    BY DEF QuizInv
  <1>8. QuizCountsOnce'
    BY DEF QuizInv, QuizCountsOnce
  <1>9. /\ quiz' \in [Chat -> SUBSET Nat] /\ score' \in [Chat -> Nat]
        /\ judged' \in SUBSET (Nat \X BOOLEAN \X Chat) /\ IsFiniteSet(judged')
        /\ \A c, d \in Chat : quiz'[c] \cap quiz'[d] # {} => c = d
    BY DEF QuizInv
  <1> QED BY <1>4, <1>5, <1>6, <1>7, <1>8, <1>9 DEF QuizInv

\* A question fetched and translated was never asked; it takes the chat's place.
LEMMA QuizStoredInv ==
    ASSUME QuizInv, NEW p \in Player, QuizStored(p)
    PROVE  QuizInv'
  <1> DEFINE n == playing[p].id
             d == playing[p].chat
             r == [playing[p] EXCEPT !.at = "show"]
  <1>1. /\ playing[p] \in QuizTurn /\ playing[p].at \in Coming /\ n \in 1..orders /\ d \in Chat
        /\ n \notin Open /\ \A j \in judged : j[1] # n
    BY DEF QuizInv, Players, QuizTurn, QuizStored, Coming
  <1>2. /\ orders' = orders /\ UNCHANGED <<score, judged, shown, unshown>>
        /\ quiz' = [quiz EXCEPT ![d] = {n}]
        /\ Play(p, r)
    BY DEF QuizStored, Calm, envVars
  <1>3. r \in QuizTurn /\ r.at = "show" /\ r.id = n /\ r.chat = d
    BY <1>1 DEF QuizTurn
  <1>4. Players' /\ playing' = [playing EXCEPT ![p] = r]
    <2> HIDE DEF r
    <2>1. Moves(p, r)
      <3>1. orders \in Nat /\ n # 0 /\ r.at # "idle"
        BY <1>1, <1>3 DEF QuizInv, Players
      <3>2. r \in QuizTurn /\ (r.at = "idle" <=> r.id = 0)
        BY <1>3, <3>1
      <3>3. /\ r.id = playing[p].id /\ r.chat \in Chat
            /\ orders' \in Nat /\ orders <= orders'
        BY <1>1, <1>2, <1>3, <3>1
      <3> QED BY <1>2, <3>2, <3>3 DEF Moves
    <2> QED BY <2>1, PlayersMove DEF QuizInv, Moves, Play
  <1> HIDE DEF r
  <1>5. \A q \in Player : playing'[q] = IF q = p THEN r ELSE playing[q]
    BY <1>4 DEF QuizInv, Players
  <1>6. \A c \in Chat : quiz'[c] = IF c = d THEN {n} ELSE quiz[c]
    BY <1>2 DEF QuizInv
  <1>7. \A c \in Chat : n \notin quiz[c]
    BY <1>1 DEF Open
  <1>8. quiz' \in [Chat -> SUBSET Nat]
    BY <1>1, <1>2 DEF QuizInv
  <1>9. \A c \in Chat : quiz'[c] = {} \/ \E q \in 1..orders' : quiz'[c] = {q}
    BY <1>1, <1>2, <1>6 DEF QuizInv
  <1>10. \A c, e \in Chat : quiz'[c] \cap quiz'[e] # {} => c = e
    BY <1>6, <1>7 DEF QuizInv
  <1>11. \A q : q \in Open' => q = n \/ q \in Open
    BY <1>6 DEF Open
  <1>12. \A j \in judged' : j[1] <= orders' /\ j[1] \notin Open'
    BY <1>1, <1>2, <1>11 DEF QuizInv
  <1>13. ASSUME NEW q \in Player, playing'[q].at \in Coming
         PROVE  playing'[q].id \notin Open' /\ \A j \in judged' : j[1] # playing'[q].id
    <2>1. q # p /\ playing'[q] = playing[q] /\ playing[q].at \in Coming
      BY <1>3, <1>5, <1>13 DEF Coming
    <2>2. playing[q].id # n
      BY <1>1, <2>1 DEF QuizInv, Players
    <2> QED BY <1>2, <1>11, <2>1, <2>2 DEF QuizInv
  <1>14. ASSUME NEW c \in Chat, NEW q \in quiz'[c]
         PROVE  \/ q \in shown' \cup unshown'
                \/ \E s \in Player : playing'[s].at = "show" /\ playing'[s].id = q
    <2>1. CASE q = n
      BY <1>3, <1>5, <2>1
    <2>2. CASE q \in quiz[c]
      <3>1. CASE q \in shown \cup unshown
        BY <1>2, <3>1
      <3>2. CASE \E s \in Player : playing[s].at = "show" /\ playing[s].id = q
        <4>1. PICK s \in Player : playing[s].at = "show" /\ playing[s].id = q
          BY <3>2
        <4>2. s # p
          BY <1>1, <4>1 DEF Coming
        <4> QED BY <1>5, <4>1, <4>2
      <3> QED BY <2>2, <3>1, <3>2 DEF QuizInv
    <2> QED BY <1>6, <2>1, <2>2
  <1>15. QuizCountsOnce'
    BY <1>2 DEF QuizInv, QuizCountsOnce
  <1> QED BY <1>2, <1>4, <1>8, <1>9, <1>10, <1>12, <1>13, <1>14, <1>15 DEF QuizInv

\* An answer takes the question away and counts once, for its chat.
LEMMA AnswerInv ==
    ASSUME QuizInv, NEW c \in Chat, Answer(c)
    PROVE  QuizInv'
  <1>1. orders \in Nat /\ orders' = orders + 1 /\ UNCHANGED <<playing, shown, unshown>>
    BY DEF QuizInv, Players, Answer, Ordered
  <1>2. PICK n \in 1..orders : quiz[c] = {n}
    BY DEF QuizInv, Answer
  <1> DEFINE b == n \in shown \/ \E p \in Player : playing[p].at = "show" /\ playing[p].id = n
             e == <<n, b, c>>
  <1>3. judged' = judged \cup {e}
    BY <1>2 DEF Answer
  <1>4. b \in BOOLEAN /\ (b \/ n \in unshown)
    BY <1>2 DEF QuizInv
  <1> HIDE DEF b
  <1>5. n \in Open /\ \A j \in judged : j[1] # n
    BY <1>2 DEF QuizInv, Open
  <1>6. e \in Nat \X BOOLEAN \X Chat /\ e \notin judged /\ e[1] = n /\ e[2] = b /\ e[3] = c
    BY <1>2, <1>4, <1>5
  <1> HIDE DEF e
  <1>7. \A d \in Chat : quiz'[d] = IF d = c THEN {} ELSE quiz[d]
    BY DEF QuizInv, Answer, Judged
  <1>8. quiz' \in [Chat -> SUBSET Nat]
    BY DEF QuizInv, Answer, Judged
  <1>9. \A d \in Chat : quiz'[d] = {} \/ \E q \in 1..orders' : quiz'[d] = {q}
    BY <1>1, <1>7 DEF QuizInv
  <1>10. \A d, k \in Chat : quiz'[d] \cap quiz'[k] # {} => d = k
    BY <1>7 DEF QuizInv
  <1>11. \A q : q \in Open' => q \in Open /\ q # n
    BY <1>2, <1>7 DEF Open, QuizInv
  <1>12. \A j \in judged' : j[1] <= orders' /\ j[1] \notin Open'
    <2>1. ASSUME NEW j \in judged
          PROVE  j[1] <= orders' /\ j[1] \notin Open'
      BY <1>1, <1>11 DEF QuizInv
    <2>2. n <= orders' /\ n \notin Open'
      BY <1>1, <1>11
    <2> QED BY <1>3, <1>6, <2>1, <2>2
  <1>13. ASSUME NEW p \in Player, playing'[p].at \in Coming
         PROVE  playing'[p].id \notin Open' /\ \A j \in judged' : j[1] # playing'[p].id
    <2>1. playing[p].at \in Coming /\ playing'[p] = playing[p]
      BY <1>1, <1>13 DEF Coming
    <2> QED BY <1>3, <1>5, <1>6, <1>11, <2>1 DEF QuizInv
  <1>14. \A d \in Chat : \A q \in quiz'[d] :
           \/ q \in shown' \cup unshown'
           \/ \E s \in Player : playing'[s].at = "show" /\ playing'[s].id = q
    BY <1>1, <1>7 DEF QuizInv
  <1>15. score' = [score EXCEPT ![c] = @ + 1] /\ score' \in [Chat -> Nat]
    BY DEF QuizInv, Answer
  <1>16. IsFiniteSet(judged') /\ judged' \in SUBSET (Nat \X BOOLEAN \X Chat)
    BY <1>3, <1>6, FS_AddElement DEF QuizInv
  <1>17. ASSUME NEW d \in Chat
         PROVE  score'[d] = Cardinality({j \in judged' : j[3] = d})
    <2> DEFINE J == {j \in judged : j[3] = d}
               K == {j \in judged' : j[3] = d}
    <2>1. score[d] = Cardinality(J)
      BY DEF QuizInv, QuizCountsOnce
    <2>2. CASE d = c
      <3>1. K = J \cup {e} /\ e \notin J
        BY <1>3, <1>6, <2>2
      <3>2. IsFiniteSet(J)
        BY FS_Subset DEF QuizInv
      <3> HIDE DEF J, K
      <3>3. Cardinality(K) = Cardinality(J) + 1
        BY <3>1, <3>2, FS_AddElement
      <3>4. score'[d] = score[d] + 1
        BY <1>15, <2>2 DEF QuizInv
      <3> QED BY <2>1, <3>3, <3>4 DEF K
    <2>3. CASE d # c
      <3>1. K = J
        BY <1>3, <1>6, <2>3
      <3> HIDE DEF J, K
      <3>2. score'[d] = score[d]
        BY <1>15, <2>3 DEF QuizInv
      <3> QED BY <2>1, <3>1, <3>2 DEF K
    <2> QED BY <2>2, <2>3
  <1>18. \A j \in judged' : j[2] \/ j[1] \in unshown'
    BY <1>1, <1>3, <1>4, <1>6 DEF QuizInv, QuizCountsOnce
  <1>19. Players'
    BY <1>1 DEF QuizInv, Players, Coming, QuizTurn
  <1> QED BY <1>8, <1>9, <1>10, <1>12, <1>13, <1>14, <1>15, <1>16, <1>17, <1>18, <1>19
          DEF QuizInv, QuizCountsOnce

LEMMA PlayersRest ==
    ASSUME orders \in Nat, orders' = orders, playing' = [p \in Player |-> AtRest]
    PROVE  Players'
  <1>1. AtRest \in QuizTurn /\ AtRest.at = "idle" /\ AtRest.id = 0
    BY DEF AtRest, QuizTurn
  <1> HIDE DEF AtRest
  <1>2. \A p \in Player : playing'[p] = AtRest
    OBVIOUS
  <1>3. \A p \in Player : playing'[p].id = 0 /\ playing'[p].at = "idle"
    BY <1>1, <1>2
  <1>4. playing' \in [Player -> QuizTurn]
    BY <1>1
  <1> QED BY <1>3, <1>4 DEF Players, Coming

\* What a step of a task makes of its place, where no question is asked or judged.
LEMMA QuizMoves ==
    ASSUME QuizInv, NEW p \in Player, NEW r, Moves(p, r), UNCHANGED <<quiz, score, judged>>,
           shown \cup unshown \subseteq shown' \cup unshown', unshown \subseteq unshown',
           r.at \in Coming => r.id > orders \/ (playing[p].at \in Coming /\ r.id = playing[p].id),
           playing[p].at = "show" => playing[p].id \in shown' \cup unshown'
    PROVE  QuizInv'
  <1>1. Players' /\ orders <= orders'
    BY PlayersMove DEF QuizInv, Moves
  <1>2. \A q \in Player : playing'[q] = IF q = p THEN r ELSE playing[q]
    BY DEF QuizInv, Players, Moves, Play
  <1>3. \A q \in Player : playing'[q].at \in Coming =>
          playing'[q].id > orders \/ (playing[q].at \in Coming /\ playing'[q].id = playing[q].id)
    BY <1>2
  <1>4. \A q \in Player : playing[q].at = "show" =>
          \/ playing'[q].at = "show" /\ playing'[q].id = playing[q].id
          \/ playing[q].id \in shown' \cup unshown'
    BY <1>2
  <1> QED BY <1>1, <1>3, <1>4, QuizStays

\* Nothing asked and nothing judged, as at the start.
LEMMA QuizFresh ==
    ASSUME Players', quiz' = [c \in Chat |-> {}], score' = [c \in Chat |-> 0], judged' = {}
    PROVE  QuizInv'
  <1>1. Open' = {}
    BY DEF Open
  <1>2. IsFiniteSet(judged') /\ Cardinality(judged') = 0
    BY FS_EmptySet
  <1>3. \A c \in Chat : quiz'[c] = {} /\ score'[c] = 0
    OBVIOUS
  <1>4. QuizCountsOnce'
    <2>1. \A c \in Chat : {j \in judged' : j[3] = c} = judged'
      OBVIOUS
    <2> QED BY <1>2, <1>3, <2>1 DEF QuizCountsOnce
  <1> QED BY <1>1, <1>2, <1>3, <1>4 DEF QuizInv

\* Each step of a task is a move of that task.
LEMMA TaskMoves ==
    ASSUME GamesAssumption, Players, NEW p \in Player, NEW b \in BOOLEAN,
           \/ \E c \in Chat : AskQuiz(p, c)
           \/ QuizFetched(p) \/ QuizFails(p) \/ QuizShown(p) \/ QuizNotShown(p)
           \/ AskDie(p) \/ ThrowLands(p, b) \/ ThrowFails(p, b) \/ ThrowRead(p)
           \/ DieDropped(p) \/ DieStays(p) \/ DieGivenUp(p)
    PROVE  \E r \in QuizTurn :
             /\ Moves(p, r)
             /\ r.at \in Coming => r.id > orders \/ (playing[p].at \in Coming /\ r.id = playing[p].id)
             /\ playing[p].at = "show" => r.at = "idle"
  <1> DEFINE t == playing[p]
  <1>1. /\ t \in QuizTurn /\ orders \in Nat /\ Throws \in Int
        /\ (t.at = "idle" <=> t.id = 0)
        /\ t.at \in Coming \/ t.at = "show" => t.chat \in Chat
    BY DEF Players, GamesAssumption
  <1> HIDE DEF t
  <1>2. AtRest \in QuizTurn /\ AtRest.at = "idle" /\ AtRest.id = 0
    BY DEF AtRest, QuizTurn
  <1>3. orders' \in Nat /\ orders <= orders'
    <2>1. orders' = orders \/ orders' = orders + 1
      BY DEF AskQuiz, QuizFetched, QuizFails, QuizShown, QuizNotShown, AskDie, ThrowLands,
         ThrowFails, ThrowRead, DieDropped, DieStays, DieGivenUp, Ordered, Calm, Fault, envVars
    <2> QED BY <1>1, <2>1
  <1>4. CASE Play(p, AtRest)
    BY <1>2, <1>3, <1>4 DEF Moves, Coming
  <1>5. ASSUME NEW c \in Chat, AskQuiz(p, c)
        PROVE  \E r \in QuizTurn :
                 /\ Moves(p, r)
                 /\ r.at \in Coming => r.id > orders \/ (t.at \in Coming /\ r.id = t.id)
                 /\ t.at = "show" => r.at = "idle"
    <2> DEFINE r == [at |-> "fetch", id |-> orders + 1, chat |-> c, left |-> 0]
    <2>1. r \in QuizTurn /\ r.at = "fetch" /\ r.id = orders + 1 /\ r.chat = c
      BY <1>1 DEF QuizTurn
    <2>2. Play(p, r) /\ orders' = orders + 1 /\ t.at = "idle"
      BY <1>5 DEF AskQuiz, Ordered, t
    <2> HIDE DEF r
    <2>3. r.id > orders /\ r.id # 0
      BY <1>1, <2>1
    <2> QED BY <1>3, <2>1, <2>2, <2>3 DEF Moves
  <1>6. CASE AskDie(p)
    <2> DEFINE r == [at |-> "throw", id |-> orders + 1, chat |-> "none", left |-> Throws]
    <2>1. r \in QuizTurn /\ r.at = "throw" /\ r.id = orders + 1
      BY <1>1 DEF QuizTurn
    <2>2. Play(p, r) /\ orders' = orders + 1 /\ t.at = "idle"
      BY <1>6 DEF AskDie, Ordered, t
    <2> HIDE DEF r
    <2>3. r.id > orders /\ r.id # 0
      BY <1>1, <2>1
    <2> QED BY <1>3, <2>1, <2>2, <2>3 DEF Moves, Coming, t
  <1>7. ASSUME NEW r \in QuizTurn, Play(p, r), r.id = t.id, t.at # "idle", r.at # "idle", t.at # "show",
               \/ r.at \notin {"fetch", "translate", "show"}
               \/ r.chat = t.chat /\ t.at \in Coming /\ r.at \in Coming
        PROVE  \E s \in QuizTurn :
                 /\ Moves(p, s)
                 /\ s.at \in Coming => s.id > orders \/ (t.at \in Coming /\ s.id = t.id)
                 /\ t.at = "show" => s.at = "idle"
    <2>1. (r.at = "idle" <=> r.id = 0)
      BY <1>1, <1>7
    <2>2. r.at \in {"fetch", "translate", "show"} => r.chat \in Chat
      BY <1>1, <1>7
    <2>3. Moves(p, r)
      BY <1>3, <1>7, <2>1, <2>2 DEF Moves, t
    <2>4. r.at \in Coming => t.at \in Coming
      BY <1>7 DEF Coming
    <2> QED BY <1>7, <2>3, <2>4
  <1>8. CASE QuizFetched(p)
    <2> DEFINE r == [t EXCEPT !.at = "translate"]
    <2>1. /\ r \in QuizTurn /\ r.id = t.id /\ r.chat = t.chat /\ r.at = "translate"
          /\ t.at = "fetch" /\ Play(p, r)
      BY <1>1, <1>8 DEF QuizFetched, QuizTurn, t
    <2> HIDE DEF r
    <2> QED BY <1>7, <2>1 DEF Coming, t
  <1>9. CASE ThrowLands(p, b)
    <2> DEFINE r == [t EXCEPT !.at = "read"]
    <2>1. r \in QuizTurn /\ r.id = t.id /\ r.at = "read" /\ t.at = "throw" /\ Play(p, r)
      BY <1>1, <1>9 DEF ThrowLands, QuizTurn, t
    <2> HIDE DEF r
    <2> QED BY <1>7, <2>1 DEF t
  <1>10. CASE ThrowRead(p)
    <2> DEFINE r == [t EXCEPT !.at = "drop"]
    <2>1. /\ r \in QuizTurn /\ r.id = t.id /\ r.at = "drop" /\ t.at = "read"
          /\ Play(p, AtRest) \/ Play(p, r)
      BY <1>1, <1>10 DEF ThrowRead, QuizTurn, t
    <2> HIDE DEF r
    <2> QED BY <1>4, <1>7, <2>1 DEF t
  <1>11. ASSUME t.at \in {"throw", "read", "drop"},
                Play(p, Attempt(t))
         PROVE  \E s \in QuizTurn :
                 /\ Moves(p, s)
                 /\ s.at \in Coming => s.id > orders \/ (t.at \in Coming /\ s.id = t.id)
                 /\ t.at = "show" => s.at = "idle"
    <2> DEFINE r == Attempt(t)
    <2>1. r \in QuizTurn /\ r.id = t.id /\ r.at = "throw"
      BY <1>1 DEF QuizTurn, Attempt
    <2>2. Play(p, r)
      BY <1>11
    <2> HIDE DEF r
    <2> QED BY <1>7, <1>11, <2>1, <2>2
  <1>12. CASE QuizFails(p) \/ QuizShown(p) \/ QuizNotShown(p) \/ DieGivenUp(p)
    BY <1>4, <1>12 DEF QuizFails, QuizShown, QuizNotShown, DieGivenUp
  <1>13. CASE ThrowFails(p, b)
    BY <1>4, <1>11, <1>13 DEF ThrowFails, t
  <1>14. CASE DieDropped(p) \/ DieStays(p)
    BY <1>11, <1>14 DEF DieDropped, DieStays, t
  <1> QED BY <1>5, <1>6, <1>8, <1>9, <1>10, <1>12, <1>13, <1>14 DEF t

LEMMA QuizStep ==
    ASSUME GamesAssumption, QuizInv, [GamesNext]_<<envVars, gamesVars>>
    PROVE  QuizInv'
  <1>1. ASSUME NEW c \in Chat, Answer(c)
        PROVE  QuizInv'
    BY <1>1, AnswerInv
  <1>2. ASSUME NEW p \in Player, QuizStored(p)
        PROVE  QuizInv'
    BY <1>2, QuizStoredInv
  <1>3. ASSUME NEW p \in Player, NEW b \in BOOLEAN,
               \/ \E c \in Chat : AskQuiz(p, c)
               \/ QuizFetched(p) \/ QuizFails(p) \/ QuizShown(p) \/ QuizNotShown(p)
               \/ AskDie(p) \/ ThrowLands(p, b) \/ ThrowFails(p, b) \/ ThrowRead(p)
               \/ DieDropped(p) \/ DieStays(p) \/ DieGivenUp(p)
        PROVE  QuizInv'
    <2>1. UNCHANGED <<quiz, score, judged>>
      BY <1>3 DEF AskQuiz, QuizFetched, QuizFails, QuizShown, QuizNotShown, AskDie, ThrowLands,
         ThrowFails, ThrowRead, DieDropped, DieStays, DieGivenUp, NotThrowing
    <2>2. /\ shown \cup unshown \subseteq shown' \cup unshown' /\ unshown \subseteq unshown'
          /\ playing[p].at = "show" => playing[p].id \in shown' \cup unshown'
      BY <1>3 DEF AskQuiz, QuizFetched, QuizFails, QuizShown, QuizNotShown, AskDie, ThrowLands,
         ThrowFails, ThrowRead, DieDropped, DieStays, DieGivenUp, NotThrowing
    <2>3. PICK r \in QuizTurn :
            /\ Moves(p, r)
            /\ r.at \in Coming => r.id > orders \/ (playing[p].at \in Coming /\ r.id = playing[p].id)
      BY <1>3, TaskMoves DEF QuizInv
    <2> QED BY <2>1, <2>2, <2>3, QuizMoves
  <1>4. ASSUME UNCHANGED <<quiz, score, playing, shown, judged, unshown>>,
               orders' \in {orders, orders + 1}
        PROVE  QuizInv'
    <2>1. orders' \in Nat /\ orders <= orders'
      BY <1>4 DEF QuizInv, Players
    <2>2. Players'
      BY <1>4, <2>1 DEF QuizInv, Players, QuizTurn
    <2> QED BY <1>4, <2>1, <2>2, QuizStays
  <1>5. ASSUME NEW c \in Chat, \/ StartGuess(c) \/ CancelGuess(c)
                               \/ \E how \in {"right", "wrong", "outside"} : Guess(c, how)
        PROVE  QuizInv'
    BY <1>4, <1>5 DEF StartGuess, CancelGuess, Guess, NotGuessing, Ordered
  <1>6. CASE GamesCrash
    <2>1. /\ quiz' = [c \in Chat |-> {}] /\ score' = [c \in Chat |-> 0] /\ judged' = {}
          /\ orders' = orders /\ playing' = [p \in Player |-> AtRest]
      BY <1>6 DEF GamesCrash, Fault
    <2>2. Players'
      BY <2>1, PlayersRest DEF QuizInv, Players
    <2> QED BY <2>1, <2>2, QuizFresh
  <1>7. CASE UNCHANGED <<envVars, gamesVars>>
    BY <1>4, <1>7 DEF envVars, gamesVars
  <1> QED BY <1>1, <1>2, <1>3, <1>5, <1>6, <1>7 DEF GamesNext

-----------------------------------------------------------------------------
(* The die: while a command throws, what is left of it is what it reads.   *)

Left == dice \ strays

DiceInv ==
    /\ Players
    /\ dice \in SUBSET (Nat \X Int \X BOOLEAN) /\ strays \in SUBSET (Nat \X Int \X BOOLEAN)
    /\ \A d \in dice : d[1] \in 1..orders
    /\ \A d \in strays : d[1] \in 1..orders
    /\ \A d \in Left : \A p \in Player : playing[p].id = d[1] =>
         /\ playing[p].at \in {"read", "drop"} /\ d[2] = playing[p].left
         /\ playing[p].at = "drop" => d[3] = FALSE
    /\ \A d \in strays : \A p \in Player : playing[p].id = d[1] =>
         playing[p].at \in {"throw", "read", "drop"} /\ d[2] > playing[p].left
    /\ DiceClean

\* One command goes on, and only its own dice change.
LEMMA DiceMove ==
    ASSUME DiceInv, NEW p \in Player, NEW r \in QuizTurn, Moves(p, r),
           dice' \in SUBSET (Nat \X Int \X BOOLEAN), strays' \in SUBSET (Nat \X Int \X BOOLEAN),
           \A d \in dice' : d[1] \in 1..orders,
           \A d \in strays' : d[1] \in 1..orders,
           \A d \in Left' : d[1] # playing[p].id => d \in Left,
           \A d \in strays' : d[1] # playing[p].id => d \in strays,
           \A d \in Left' : d[1] = playing[p].id /\ r.id = playing[p].id =>
             /\ r.at \in {"read", "drop"} /\ d[2] = r.left
             /\ r.at = "drop" => d[3] = FALSE,
           \A d \in Left' : d[1] = playing[p].id /\ r.id # playing[p].id => d[3] = TRUE,
           \A d, e \in Left' : d[1] = playing[p].id /\ e[1] = playing[p].id => d = e,
           \A d \in strays' : d[1] = playing[p].id /\ r.id = playing[p].id =>
             r.at \in {"throw", "read", "drop"} /\ d[2] > r.left
    PROVE  DiceInv'
  <1> DEFINE n == playing[p].id
  <1>1. /\ Players'
        /\ \A q \in Player : playing'[q] = IF q = p THEN r ELSE playing[q]
    BY PlayersMove DEF DiceInv, Players, Moves, Play
  <1>2. /\ orders \in Nat /\ orders' \in Nat /\ orders <= orders'
        /\ r.id = 0 \/ r.id = n \/ (r.id = orders' /\ orders' = orders + 1)
    BY DEF DiceInv, Players, Moves
  <1>3. \A d \in Left' : d[1] \in 1..orders
    BY DEF Left
  <1>4. \A q \in Player : q # p /\ playing[q].id # 0 => playing[q].id # n
    BY DEF DiceInv, Players
  <1>5. ASSUME NEW i \in 1..orders, r.id = i
        PROVE  i = n
    BY <1>2, <1>5
  <1>6. ASSUME NEW d \in Left', NEW q \in Player, playing'[q].id = d[1]
        PROVE  /\ playing'[q].at \in {"read", "drop"} /\ d[2] = playing'[q].left
               /\ playing'[q].at = "drop" => d[3] = FALSE
    <2>1. CASE q = p
      <3>1. d[1] = n /\ r.id = n /\ playing'[q] = r
        BY <1>1, <1>3, <1>5, <1>6, <2>1
      <3> QED BY <3>1
    <2>2. CASE q # p
      <3>1. playing'[q] = playing[q] /\ d[1] # 0
        BY <1>1, <1>2, <1>3, <2>2
      <3>2. d[1] # n
        BY <1>4, <1>6, <2>2, <3>1
      <3> QED BY <1>6, <3>1, <3>2 DEF DiceInv
    <2> QED BY <2>1, <2>2
  <1>7. ASSUME NEW d \in strays', NEW q \in Player, playing'[q].id = d[1]
        PROVE  playing'[q].at \in {"throw", "read", "drop"} /\ d[2] > playing'[q].left
    <2>1. CASE q = p
      <3>1. d[1] = n /\ r.id = n /\ playing'[q] = r
        BY <1>1, <1>5, <1>7, <2>1
      <3> QED BY <3>1
    <2>2. CASE q # p
      <3>1. playing'[q] = playing[q] /\ d[1] # 0
        BY <1>1, <1>2, <2>2
      <3>2. d[1] # n
        BY <1>4, <1>7, <2>2, <3>1
      <3> QED BY <1>7, <3>1, <3>2 DEF DiceInv
    <2> QED BY <2>1, <2>2
  <1>8. ASSUME NEW d \in Left'
        PROVE  d[3] \/ \E q \in Player : playing'[q].id = d[1]
    <2>1. CASE d[1] = n
      BY <1>1, <2>1
    <2>2. CASE d[1] # n
      <3>1. d \in Left
        BY <2>2
      <3>2. d[3] \/ \E q \in Player : playing[q].id = d[1]
        BY <3>1 DEF DiceInv, DiceClean, Left
      <3>3. \A q \in Player : playing[q].id = d[1] => q # p
        BY <2>2
      <3> QED BY <1>1, <3>2, <3>3
    <2> QED BY <2>1, <2>2
  <1>9. ASSUME NEW d \in Left', NEW e \in Left', d[1] = e[1]
        PROVE  d = e
    <2>1. CASE d[1] = n
      BY <1>9, <2>1
    <2>2. CASE d[1] # n
      BY <1>9, <2>2 DEF DiceInv, DiceClean, Left
    <2> QED BY <2>1, <2>2
  <1>10. \A i \in 1..orders : i \in 1..orders'
    BY <1>2
  <1> QED BY <1>1, <1>6, <1>7, <1>8, <1>9, <1>10 DEF DiceInv, DiceClean, Left

\* The dice stay: a task moves that throws none, or only reads, or is done.
LEMMA DiceStay ==
    ASSUME DiceInv, UNCHANGED <<dice, strays>>, NEW p \in Player, NEW r \in QuizTurn, Moves(p, r),
           r.id = playing[p].id =>
             \/ playing[p].at \in {"fetch", "translate", "show"} /\ r.left = playing[p].left
             \/ playing[p].at = "read" /\ r.at = "drop" /\ r.left = playing[p].left
                  /\ Die(p, TRUE) \notin dice,
           r.id # playing[p].id => playing[p].at # "drop" /\ (playing[p].at = "read" => Die(p, TRUE) \in dice)
    PROVE  DiceInv'
  <1> DEFINE n == playing[p].id
             t == playing[p]
  <1>1. Left' = Left /\ Left \subseteq dice
    BY DEF Left
  <1>2. \A d \in Left : d[1] = n => t.at \in {"read", "drop"} /\ d[2] = t.left
    BY DEF DiceInv
  <1>3. \A d \in strays : d[1] = n => t.at \in {"throw", "read", "drop"} /\ d[2] > t.left
    BY DEF DiceInv
  <1>4. \A d \in Left : d = <<d[1], d[2], d[3]>> /\ d[3] \in BOOLEAN
    BY <1>1 DEF DiceInv
  <1>5. \A d \in Left : d[1] = n /\ d[3] = TRUE => d = Die(p, TRUE)
    BY <1>2, <1>4 DEF Die
  <1>6. ASSUME NEW d \in Left, d[1] = n, r.id = n
        PROVE  r.at = "drop" /\ d[2] = r.left /\ d[3] = FALSE
    BY <1>1, <1>2, <1>4, <1>5, <1>6
  <1>7. ASSUME NEW d \in Left, d[1] = n, r.id # n
        PROVE  d[3] = TRUE
    <2>1. t.at = "read" /\ Die(p, TRUE) \in dice /\ d[2] = t.left
      BY <1>2, <1>7
    <2> DEFINE hit == <<n, t.left, TRUE>>
    <2>2. hit \in dice /\ hit[1] = n /\ hit[2] = t.left /\ hit[3] = TRUE
      BY <2>1 DEF Die
    <2>3. t.left \in Int
      BY DEF DiceInv, Players, QuizTurn
    <2> HIDE DEF hit
    <2>4. ~(hit[2] > t.left)
      BY <2>2, <2>3
    <2>5. hit \in Left
      BY <1>3, <2>2, <2>4 DEF Left
    <2>6. d = hit
      BY <1>7, <2>2, <2>5 DEF DiceInv, DiceClean, Left
    <2> QED BY <2>2, <2>6
  <1>8. ASSUME NEW d \in strays, d[1] = n, r.id = n
        PROVE  r.at \in {"throw", "read", "drop"} /\ d[2] > r.left
    BY <1>3, <1>8
  <1>9. \A d, e \in Left : d[1] = e[1] => d = e
    BY DEF DiceInv, DiceClean, Left
  <1>10. /\ dice' \in SUBSET (Nat \X Int \X BOOLEAN) /\ strays' \in SUBSET (Nat \X Int \X BOOLEAN)
         /\ \A d \in dice' : d[1] \in 1..orders
         /\ \A d \in strays' : d[1] \in 1..orders
    BY DEF DiceInv
  <1>11. /\ \A d \in Left' : d[1] # n => d \in Left
         /\ \A d \in strays' : d[1] # n => d \in strays
         /\ \A d, e \in Left' : d[1] = n /\ e[1] = n => d = e
    BY <1>1, <1>9
  <1>12. \A d \in Left' : d[1] = n /\ r.id = n =>
           /\ r.at \in {"read", "drop"} /\ d[2] = r.left
           /\ r.at = "drop" => d[3] = FALSE
    BY <1>1, <1>6
  <1>13. \A d \in Left' : d[1] = n /\ r.id # n => d[3] = TRUE
    BY <1>1, <1>7
  <1>14. \A d \in strays' : d[1] = n /\ r.id = n =>
           r.at \in {"throw", "read", "drop"} /\ d[2] > r.left
    BY <1>8
  <1> QED BY <1>10, <1>11, <1>12, <1>13, <1>14, DiceMove

\* While a command waits to throw again, none of its dice is left.
LEMMA DiceThrown ==
    ASSUME DiceInv, NEW p \in Player, NEW b \in BOOLEAN, ThrowLands(p, b)
    PROVE  DiceInv'
  <1> DEFINE t == playing[p]
             n == t.id
             r == [t EXCEPT !.at = "read"]
             die == Die(p, b)
  <1>1. /\ t \in QuizTurn /\ t.at = "throw" /\ n \in 1..orders /\ t.left \in Int /\ orders \in Nat
        /\ orders' = orders /\ strays' = strays /\ dice' = dice \cup {die} /\ Play(p, r)
    BY DEF DiceInv, Players, QuizTurn, ThrowLands, Calm, envVars
  <1>2. r \in QuizTurn /\ r.at = "read" /\ r.id = n /\ r.left = t.left
    BY <1>1 DEF QuizTurn
  <1>3. die = <<n, t.left, b>>
    BY DEF Die
  <1> HIDE DEF r, die
  <1>4. Moves(p, r)
    BY <1>1, <1>2 DEF Moves
  <1>5. die \in Nat \X Int \X BOOLEAN /\ die[1] = n /\ die[2] = t.left
    BY <1>1, <1>3
  <1>6. dice' \in SUBSET (Nat \X Int \X BOOLEAN) /\ strays' \in SUBSET (Nat \X Int \X BOOLEAN)
    BY <1>1, <1>5 DEF DiceInv
  <1>7. /\ \A d \in dice' : d[1] \in 1..orders
        /\ \A d \in strays' : d[1] \in 1..orders
    BY <1>1, <1>5 DEF DiceInv
  <1>8. \A d \in Left' : d = die \/ (d \in Left /\ d[1] # n)
    BY <1>1 DEF DiceInv, Left
  <1>9. \A d \in strays' : d[1] = n => d[2] > r.left
    BY <1>1, <1>2 DEF DiceInv
  <1>10. /\ \A d \in Left' : d[1] # n => d \in Left
         /\ \A d \in strays' : d[1] # n => d \in strays
         /\ \A d, e \in Left' : d[1] = n /\ e[1] = n => d = e
    BY <1>1, <1>5, <1>8
  <1>11. \A d \in Left' : d[1] = n /\ r.id = n =>
           /\ r.at \in {"read", "drop"} /\ d[2] = r.left
           /\ r.at = "drop" => d[3] = FALSE
    BY <1>2, <1>5, <1>8
  <1>12. /\ \A d \in Left' : d[1] = n /\ r.id # n => d[3] = TRUE
         /\ \A d \in strays' : d[1] = n /\ r.id = n =>
              r.at \in {"throw", "read", "drop"} /\ d[2] > r.left
    BY <1>2, <1>9
  <1> QED BY <1>2, <1>4, <1>6, <1>7, <1>10, <1>11, <1>12, DiceMove

\* An attempt is over: what it left is dropped, or astray; or the command is.
LEMMA DiceDropped ==
    ASSUME DiceInv, NEW p \in Player, NEW b \in BOOLEAN,
           ThrowFails(p, b) \/ DieDropped(p) \/ DieStays(p)
    PROVE  DiceInv'
  <1> DEFINE t == playing[p]
             n == t.id
  <1>1. /\ t \in QuizTurn /\ n \in 1..orders /\ t.left \in Int /\ orders \in Nat /\ n # 0
        /\ t.at \in {"throw", "read", "drop"}
    <2>1. t \in QuizTurn /\ t.at \in {"throw", "read", "drop"} /\ orders \in Nat
      BY DEF DiceInv, Players, ThrowFails, DieDropped, DieStays
    <2>2. t.id <= orders /\ t.id # 0
      BY <2>1 DEF DiceInv, Players
    <2> QED BY <2>1, <2>2 DEF QuizTurn
  <1>2. /\ orders' = orders
        /\ dice' \subseteq dice /\ strays \subseteq strays'
        /\ Play(p, Attempt(t)) \/ Play(p, AtRest)
    BY DEF ThrowFails, DieDropped, DieStays, Die, Calm, Fault, envVars
  <1>3. \A d \in Left : d[1] = n => d[2] = t.left /\ t.at \in {"read", "drop"}
                                     /\ (t.at = "drop" => d[3] = FALSE)
    BY DEF DiceInv
  <1>4. \A d \in Left : d = <<d[1], d[2], d[3]>>
    BY DEF DiceInv, Left
  <1>5. ASSUME NEW d \in Left'
        PROVE  d \in Left /\ d[1] # n
    <2>1. d \in Left
      BY <1>2 DEF Left
    <2>2. CASE ThrowFails(p, b)
      BY <1>3, <2>1, <2>2 DEF ThrowFails, Left
    <2>3. CASE DieDropped(p) \/ DieStays(p)
      <3>1. d[1] = n => d = Die(p, FALSE)
        BY <1>3, <1>4, <2>1, <2>3 DEF DieDropped, DieStays, Die
      <3>2. Die(p, FALSE) \notin Left'
        BY <2>3 DEF DieDropped, DieStays, Left
      <3> QED BY <1>5, <2>1, <3>1, <3>2
    <2> QED BY <2>1, <2>2, <2>3
  <1>6. \A d \in strays' :
           \/ d \in strays
           \/ d[1] = n /\ d[2] = t.left /\ d \in Nat \X Int \X BOOLEAN
    <2>1. CASE ThrowFails(p, b)
      BY <2>1 DEF ThrowFails, DiceInv
    <2>2. CASE DieDropped(p)
      BY <2>2 DEF DieDropped
    <2>3. CASE DieStays(p)
      <3>1. strays' = strays \cup {Die(p, FALSE)} /\ Die(p, FALSE) \in Nat \X Int \X BOOLEAN
        BY <1>1, <2>3 DEF DieStays, Die, DiceInv, Players, QuizTurn
      <3>2. Die(p, FALSE)[1] = n /\ Die(p, FALSE)[2] = t.left
        BY DEF Die
      <3> QED BY <3>1, <3>2
    <2> QED BY <2>1, <2>2, <2>3
  <1>7. \A d \in strays' : d[1] = n => d[2] >= t.left
    <2>1. \A d \in strays : d[1] = n => d[2] > t.left /\ d[2] \in Int
      BY DEF DiceInv
    <2> QED BY <1>1, <1>6, <2>1
  <1>8. \A d \in strays' : d[1] \in 1..orders /\ d \in Nat \X Int \X BOOLEAN
    BY <1>1, <1>6 DEF DiceInv
  <1>9. /\ dice' \in SUBSET (Nat \X Int \X BOOLEAN) /\ strays' \in SUBSET (Nat \X Int \X BOOLEAN)
        /\ \A d \in dice' : d[1] \in 1..orders
    BY <1>2, <1>8 DEF DiceInv
  <1>10. ASSUME NEW r \in QuizTurn, Play(p, r), r.id \in {0, n}, r.at = "idle" <=> r.id = 0,
                r.id = n => r.at = "throw" /\ r.left = t.left - 1
         PROVE  DiceInv'
    <2>1. Moves(p, r)
      BY <1>1, <1>2, <1>10 DEF Moves
    <2>2. \A d \in strays' : d[1] = n /\ r.id = n => d[2] > r.left
      BY <1>1, <1>7, <1>8, <1>10
    <2> QED BY <1>1, <1>5, <1>6, <1>8, <1>9, <1>10, <2>1, <2>2, DiceMove
  <1>11. CASE Play(p, Attempt(t))
    <2> DEFINE r == Attempt(t)
    <2>1. r \in QuizTurn /\ r.id = n /\ r.at = "throw" /\ r.left = t.left - 1
      BY <1>1 DEF Attempt, QuizTurn
    <2> HIDE DEF r
    <2> QED BY <1>1, <1>10, <1>11, <2>1 DEF r
  <1>12. CASE Play(p, AtRest)
    <2>1. AtRest \in QuizTurn /\ AtRest.id = 0 /\ AtRest.at = "idle"
      BY DEF AtRest, QuizTurn
    <2> QED BY <1>1, <1>10, <1>12, <2>1
  <1> QED BY <1>2, <1>11, <1>12

\* The dice and their commands stay as they are, whatever else happens.
LEMMA DiceUnmoved ==
    ASSUME DiceInv, UNCHANGED <<playing, dice, strays>>, orders' \in {orders, orders + 1}
    PROVE  DiceInv'
  <1>1. orders \in Nat /\ orders' \in Nat /\ orders <= orders'
    BY DEF DiceInv, Players
  <1>2. Players'
    BY <1>1 DEF DiceInv, Players, QuizTurn
  <1>3. \A i \in 1..orders : i \in 1..orders'
    BY <1>1
  <1> QED BY <1>2, <1>3 DEF DiceInv, DiceClean, Left

\* The steps of a task that throw nothing and drop nothing.
LEMMA DiceRead ==
    ASSUME GamesAssumption, DiceInv, NEW p \in Player,
           \/ \E c \in Chat : AskQuiz(p, c)
           \/ QuizFetched(p) \/ QuizFails(p) \/ QuizStored(p) \/ QuizShown(p) \/ QuizNotShown(p)
           \/ AskDie(p) \/ ThrowRead(p) \/ DieGivenUp(p)
    PROVE  DiceInv'
  <1> DEFINE t == playing[p]
  <1>1. /\ t \in QuizTurn /\ orders \in Nat /\ Throws \in Int
        /\ (t.at = "idle" <=> t.id = 0)
        /\ t.at \in Coming \/ t.at = "show" => t.chat \in Chat
        /\ t.id \in Nat /\ t.id <= orders
    BY DEF DiceInv, Players, GamesAssumption, QuizTurn
  <1>2. UNCHANGED <<dice, strays>>
    BY DEF AskQuiz, QuizFetched, QuizFails, QuizStored, QuizShown, QuizNotShown, AskDie,
         ThrowRead, DieGivenUp, NotQuizzing
  <1> HIDE DEF t
  <1>3. ASSUME t.at # "idle", orders' = orders, Play(p, AtRest),
               t.at # "drop", t.at = "read" => Die(p, TRUE) \in dice
        PROVE  DiceInv'
    <2>1. AtRest \in QuizTurn /\ AtRest.id = 0 /\ AtRest.at = "idle"
      BY DEF AtRest, QuizTurn
    <2>2. Moves(p, AtRest)
      BY <1>1, <1>3, <2>1 DEF Moves
    <2>3. AtRest.id # playing[p].id
      BY <1>1, <1>3, <2>1 DEF t
    <2> HIDE DEF AtRest
    <2> QED BY <1>2, <1>3, <2>1, <2>2, <2>3, DiceStay DEF t
  <1>4. ASSUME NEW r \in QuizTurn, Play(p, r), t.at = "idle", orders' = orders + 1, r.id = orders + 1,
               r.at # "idle", r.at \in {"fetch", "translate", "show"} => r.chat \in Chat
        PROVE  DiceInv'
    <2>1. r.id # t.id /\ r.id # 0 /\ orders' \in Nat /\ orders <= orders'
      BY <1>1, <1>4
    <2>2. Moves(p, r)
      BY <1>4, <2>1 DEF Moves
    <2> QED BY <1>2, <1>4, <2>1, <2>2, DiceStay DEF t
  <1>5. ASSUME NEW r \in QuizTurn, Play(p, r), orders' = orders, r.id = t.id, r.left = t.left,
               r.chat = t.chat, t.at # "idle", r.at # "idle",
               \/ t.at \in Coming /\ r.at \in {"translate", "show"}
               \/ t.at = "read" /\ r.at = "drop" /\ Die(p, TRUE) \notin dice
        PROVE  DiceInv'
    <2>1. r.id # 0 /\ (r.at \in {"fetch", "translate", "show"} => r.chat \in Chat)
      BY <1>1, <1>5
    <2>2. Moves(p, r)
      BY <1>1, <1>5, <2>1 DEF Moves, t
    <2>3. \/ t.at \in {"fetch", "translate", "show"} /\ r.left = t.left
          \/ t.at = "read" /\ r.at = "drop" /\ r.left = t.left /\ Die(p, TRUE) \notin dice
      BY <1>5 DEF Coming
    <2> QED BY <1>2, <1>5, <2>2, <2>3, DiceStay DEF t
  <1>6. ASSUME NEW c \in Chat, AskQuiz(p, c)
        PROVE  DiceInv'
    <2> DEFINE r == [at |-> "fetch", id |-> orders + 1, chat |-> c, left |-> 0]
    <2>1. r \in QuizTurn /\ r.at = "fetch" /\ r.id = orders + 1 /\ r.chat = c
      BY <1>1 DEF QuizTurn
    <2>2. Play(p, r) /\ orders' = orders + 1 /\ t.at = "idle"
      BY <1>6 DEF AskQuiz, Ordered, t
    <2> HIDE DEF r
    <2> QED BY <1>4, <2>1, <2>2
  <1>7. CASE AskDie(p)
    <2> DEFINE r == [at |-> "throw", id |-> orders + 1, chat |-> "none", left |-> Throws]
    <2>1. r \in QuizTurn /\ r.at = "throw" /\ r.id = orders + 1
      BY <1>1 DEF QuizTurn
    <2>2. Play(p, r) /\ orders' = orders + 1 /\ t.at = "idle"
      BY <1>7 DEF AskDie, Ordered, t
    <2> HIDE DEF r
    <2> QED BY <1>4, <2>1, <2>2
  <1>8. ASSUME NEW a \in {"translate", "show", "drop"}, Play(p, [t EXCEPT !.at = a]), orders' = orders,
               \/ t.at \in Coming /\ a \in {"translate", "show"}
               \/ t.at = "read" /\ a = "drop" /\ Die(p, TRUE) \notin dice
        PROVE  DiceInv'
    <2> DEFINE r == [t EXCEPT !.at = a]
    <2>1. r \in QuizTurn /\ r.at = a /\ r.id = t.id /\ r.chat = t.chat /\ r.left = t.left
      BY <1>1, <1>8 DEF QuizTurn
    <2>2. Play(p, r)
      BY <1>8
    <2>3. t.at # "idle" /\ a # "idle"
      BY <1>8 DEF Coming
    <2> HIDE DEF r
    <2> QED BY <1>5, <1>8, <2>1, <2>2, <2>3
  <1>9. CASE QuizFetched(p) \/ QuizStored(p)
    BY <1>8, <1>9 DEF QuizFetched, QuizStored, Coming, Calm, envVars, t
  <1>10. CASE QuizFails(p) \/ QuizShown(p) \/ QuizNotShown(p) \/ DieGivenUp(p)
    BY <1>3, <1>10 DEF QuizFails, QuizShown, QuizNotShown, DieGivenUp, Calm, Fault, envVars, t
  <1>11. CASE ThrowRead(p)
    BY <1>3, <1>8, <1>11 DEF ThrowRead, Calm, envVars, t
  <1> QED BY <1>6, <1>7, <1>9, <1>10, <1>11

LEMMA DiceStep ==
    ASSUME GamesAssumption, DiceInv, [GamesNext]_<<envVars, gamesVars>>
    PROVE  DiceInv'
  <1>1. ASSUME NEW p \in Player, NEW b \in BOOLEAN,
               ThrowLands(p, b) \/ ThrowFails(p, b) \/ DieDropped(p) \/ DieStays(p)
        PROVE  DiceInv'
    BY <1>1, DiceThrown, DiceDropped
  <1>2. ASSUME NEW p \in Player,
               \/ \E c \in Chat : AskQuiz(p, c)
               \/ QuizFetched(p) \/ QuizFails(p) \/ QuizStored(p) \/ QuizShown(p)
               \/ QuizNotShown(p) \/ AskDie(p) \/ ThrowRead(p) \/ DieGivenUp(p)
        PROVE  DiceInv'
    BY <1>2, DiceRead
  <1>3. ASSUME NEW c \in Chat, \/ StartGuess(c) \/ CancelGuess(c) \/ Answer(c)
                               \/ \E how \in {"right", "wrong", "outside"} : Guess(c, how)
        PROVE  DiceInv'
    BY <1>3, DiceUnmoved DEF StartGuess, CancelGuess, Guess, Answer, NotGuessing, NotQuizzing, Ordered
  <1>4. CASE GamesCrash
    <2>1. /\ orders' = orders /\ playing' = [p \in Player |-> AtRest]
          /\ dice' = dice /\ strays' = strays \cup dice
      BY <1>4 DEF GamesCrash, Fault
    <2>2. Players'
      BY <2>1, PlayersRest DEF DiceInv, Players
    <2>3. Left' = {}
      BY <2>1 DEF Left
    <2>4. \A p \in Player : playing'[p].id = 0
      BY <2>1 DEF AtRest
    <2>5. /\ dice' \in SUBSET (Nat \X Int \X BOOLEAN) /\ strays' \in SUBSET (Nat \X Int \X BOOLEAN)
          /\ \A d \in dice' : d[1] \in 1..orders'
          /\ \A d \in strays' : d[1] \in 1..orders' /\ d[1] # 0
      BY <2>1 DEF DiceInv, Players
    <2> QED BY <2>2, <2>3, <2>4, <2>5 DEF DiceInv, DiceClean, Left
  <1>5. CASE UNCHANGED <<envVars, gamesVars>>
    BY <1>5, DiceUnmoved DEF envVars, gamesVars
  <1> QED BY <1>1, <1>2, <1>3, <1>4, <1>5 DEF GamesNext

\* The games at the start.
LEMMA GamesInitInv == GamesAssumption /\ EnvInit /\ GamesInit => GuessInv /\ QuizInv /\ DiceInv
  <1> SUFFICES ASSUME GamesAssumption, EnvInit, GamesInit
               PROVE  GuessInv /\ QuizInv /\ DiceInv
    OBVIOUS
  <1>1. AtRest \in QuizTurn /\ AtRest.id = 0 /\ AtRest.at = "idle"
    BY DEF AtRest, QuizTurn
  <1> HIDE DEF AtRest
  <1>2. orders = 0 /\ playing = [p \in Player |-> AtRest]
    BY DEF EnvInit, GamesInit
  <1>3. Players
    BY <1>1, <1>2 DEF Players, Coming
  <1>4. GuessInv
    BY FS_EmptySet DEF EnvInit, GamesInit, GuessInv, GuessTable, GamesAssumption
  <1>5. QuizInv
    <2>1. Open = {} /\ quiz = [c \in Chat |-> {}] /\ score = [c \in Chat |-> 0] /\ judged = {}
      BY DEF Open, GamesInit
    <2>2. IsFiniteSet(judged) /\ Cardinality(judged) = 0
      BY <2>1, FS_EmptySet
    <2>3. \A c \in Chat : {j \in judged : j[3] = c} = judged
      BY <2>1
    <2>4. QuizCountsOnce
      BY <2>1, <2>2, <2>3 DEF QuizCountsOnce
    <2> QED BY <1>3, <2>1, <2>2, <2>4 DEF QuizInv
  <1>6. DiceInv
    BY <1>3 DEF GamesInit, DiceInv, DiceClean, Left
  <1> QED BY <1>4, <1>5, <1>6

\* The games hold, for any number of chats, players, attempts and crashes, and
\* any size of the table: it stays within its bound and loses none of its newer
\* half, an answer counts once for a question on the screen or about to be, and
\* no die but the right one is left (fun.py:196-201, 449-468, 574-582, 98-116).
THEOREM GamesAlwaysHold == ASSUME GamesAssumption PROVE GamesSpec => []GamesHold
  <1>1. EnvInit /\ GamesInit => GuessInv /\ QuizInv /\ DiceInv
    BY GamesInitInv
  <1>2. GuessInv /\ QuizInv /\ DiceInv /\ [GamesNext]_<<envVars, gamesVars>>
          => (GuessInv /\ QuizInv /\ DiceInv)'
    BY GuessStep, QuizStep, DiceStep
  <1>3. GuessInv /\ QuizInv /\ DiceInv => GamesHold
    BY DEF GuessInv, QuizInv, DiceInv, GamesHold, GuessesGiveWay
  <1> QED BY <1>1, <1>2, <1>3, PTL DEF GamesSpec

-----------------------------------------------------------------------------
(* The commands that keep nothing: each tells the truth of how it ended.   *)

JobsNext ==
    \/ \E w \in Worker :
         \/ \E c \in DOMAIN Plan : StartJob(w, c)
         \/ ShowsUsage(w) \/ StepDone(w) \/ PackTaken(w) \/ TellsError(w)
         \/ \E landed \in BOOLEAN : StepFails(w, landed) \/ TellFails(w, landed)
    \/ JobsCrash

JobsSpec == EnvInit /\ JobsInit /\ [][JobsNext]_<<envVars, jobsVars>>

-----------------------------------------------------------------------------
(* The plans: what their tables have in common.                            *)

Telling == {"tell", "retell"}
Endings == {"show", "delete"}

\* The steps from first to last, each with ways to fail; what the owner is told
\* last is no "in progress", but of a panel that stays, and nothing is "in progress"
\* again after it; what fails is told before anything is done, unless it is the last
\* edit; a copy is deleted at once, and a sticker that finds no place is told.
Sound(P) ==
    /\ Len(P) \in Nat /\ Len(P) >= 1 /\ DOMAIN P = 1..Len(P)
    /\ \A k \in 1..Len(P) : P[k].else \subseteq {"raise", "tell", "retell", "next"}
    /\ \/ \E k \in 1..Len(P) : /\ P[k].do \in Endings /\ "next" \notin P[k].else
                               /\ \A j \in 1..Len(P) : j > k => P[j].do # "busy"
       \/ /\ \A j \in 1..Len(P) : P[j].do # "busy"
          /\ \E i, k \in 1..Len(P) : P[i].do = "show" /\ P[k].do = "delete"
    /\ \A k \in 1..Len(P) : P[k].else \cap Telling # {} /\ P[k].do \notin Endings =>
         \A j \in 1..Len(P) : j < k => P[j].do \notin Effects
    /\ \A k \in 1..Len(P) : P[k].do = "busy" => \A j \in 1..Len(P) : j < k => P[j].do \notin Endings
    /\ P[1].do # "uncopy"
    /\ \A k \in 1..Len(P) : /\ P[k].do = "copy" => k < Len(P) /\ P[k + 1].do = "uncopy"
                            /\ P[k].do = "place" => "tell" \in P[k].else

LEMMA PlansAreSound == \A c \in DOMAIN Plan : Sound(Plan[c])
  <1> USE DEF Sound, Telling, Endings, Effects, Bare, Try, On
  <1>1. Sound(Watermark)
    BY DEF Watermark, Reply
  <1>2. Sound(Compress)
    BY DEF Compress, Reply
  <1>3. Sound(ConvertFile)
    BY DEF ConvertFile, Reply
  <1>4. Sound(Sticker)
    BY DEF Sticker, Reply
  <1>5. Sound(Transcribe)
    BY DEF Transcribe, Reply, LocalRecognition
  <1>6. Sound(TranscribeAndAsk)
    BY DEF TranscribeAndAsk, Reply, LocalRecognition
  <1>7. Sound(Tts)
    BY DEF Tts, Reply, Synthesis
  <1>8. Sound(Ocr)
    BY DEF Ocr, Reply
  <1>9. Sound(Ask)
    BY DEF Ask, Reply, AskAndReply, AskAi
  <1>10. Sound(Summarize)
    BY DEF Summarize, AskAndReply, AskAi
  <1>11. Sound(AiTranslate)
    BY DEF AiTranslate, Reply, AskAndReply, AskAi
  <1>12. Sound(Shorten)
    BY DEF Shorten, LookUp
  <1>13. Sound(Weather)
    BY DEF Weather, LookUp
  <1>14. Sound(Currency)
    BY DEF Currency, LookUp
  <1>15. Sound(Translate)
    BY DEF Translate, Reply, LookUp
  <1>16. Sound(Price)
    BY DEF Price
  <1>17. Sound(Hafez)
    BY DEF Hafez
  <1>18. Sound(Search)
    BY DEF Search, LocalSections, ChatMessages, PublicEntities
  <1>19. Sound(Health)
    BY DEF Health, HealthChecks
  <1>20. Sound(Moderate)
    BY DEF Moderate, Reply
  <1>21. Sound(GroupCall)
    BY DEF GroupCall
  <1>22. Sound(DeleteReplied)
    BY DEF DeleteReplied, Reply
  <1>23. Sound(Purge)
    BY DEF Purge, Reply
  <1>24. Sound(Pin)
    BY DEF Pin, Reply
  <1>25. Sound(SetBio)
    BY DEF SetBio
  <1>26. Sound(SetPhoto)
    BY DEF SetPhoto, Reply
  <1>27. Sound(Panel)
    BY DEF Panel
  <1>28. Sound(PanelClick)
    BY DEF PanelClick
  <1>29. Sound(PanelClose)
    BY DEF PanelClose
  <1>30. Sound(Help)
    BY DEF Help
  <1>31. Sound(Ping)
    BY DEF Ping
  <1>32. Sound(Info)
    BY DEF Info, Reply
  <1>33. Sound(Calc)
    BY DEF Calc
  <1>34. Sound(TextTool)
    BY DEF TextTool, Reply
  <1>35. Sound(Base64)
    BY DEF Base64, Reply
  <1>36. Sound(Chance)
    BY DEF Chance
  <1>37. Sound(ChanceOrText)
    BY DEF ChanceOrText, Reply
  <1>38. Sound(EitherOr)
    BY DEF EitherOr
  <1>39. Sound(Qr)
    BY DEF Qr
  <1>40. Sound(Typed)
    BY DEF Typed
  <1>41. Sound(Live)
    BY DEF Live
  <1> HIDE DEF Sound
  <1> QED
    BY <1>1, <1>2, <1>3, <1>4, <1>5, <1>6, <1>7, <1>8, <1>9, <1>10, <1>11, <1>12,
       <1>13, <1>14, <1>15, <1>16, <1>17, <1>18, <1>19, <1>20, <1>21, <1>22,
       <1>23, <1>24, <1>25, <1>26, <1>27, <1>28, <1>29, <1>30, <1>31, <1>32,
       <1>33, <1>34, <1>35, <1>36, <1>37, <1>38, <1>39, <1>40, <1>41 DEF Plan

\* The plan of the sticker: its eighth step places it, and its ninth reports that.
LEMMA StickerPlan ==
    /\ Len(Plan["sticker"]) = 9
    /\ Plan["sticker"][8].do = "place" /\ Plan["sticker"][8].else = {"tell"}
    /\ \A k \in 1..8 : Plan["sticker"][k].do # "show"
  BY DEF Plan, Sticker, Reply, Bare, Try, On

-----------------------------------------------------------------------------
(* One command.                                                            *)

JobFields == {"plan", "id", "at", "step", "status", "did", "failed", "raised", "again", "sees"}

IsJob(r) ==
    /\ DOMAIN r = JobFields
    /\ r.plan \in DOMAIN Plan /\ r.id \in Nat
    /\ r.step \in 1..Len(Plan[r.plan])

\* Each step before the n-th was done, or failed and let the command go on.
Passed(r, n) ==
    \A k \in 1..Len(Plan[r.plan]) : k < n =>
      k \in r.did \/ (Plan[r.plan][k].do \in r.failed /\ "next" \in Plan[r.plan][k].else)

\* The last edit is seen, unless a later one hides it.
Seen(r) ==
    \A k \in r.did : /\ Plan[r.plan][k].do \in Endings
                     /\ \A j \in r.did : j > k => Plan[r.plan][j].do # "busy"
      => r.status \in {"result", "gone"}

\* Nothing was done of what fails.
Undone(r) ==
    r.failed \cap Endings = {} => \A k \in r.did : Plan[r.plan][k].do \notin Effects

Going(r, n) ==
    /\ \A k \in r.did : k \in 1..Len(Plan[r.plan]) /\ k < n
    /\ Passed(r, n) /\ Seen(r)
    /\ r.status \notin {"usage", "error"}

JobInv(r) ==
    /\ IsJob(r)
    /\ r.at = "runs" => Going(r, r.step)
    /\ r.at = "tells" => Undone(r)
    /\ r.at = "done" /\ ~r.raised =>
         \/ r.status = "usage"
         \/ r.status = "error" /\ Undone(r)
         \/ Going(r, Len(Plan[r.plan]) + 1)

\* A command whose steps have all had their turn.
LEMMA AllDone ==
    ASSUME NEW r, IsJob(r), Going(r, Len(Plan[r.plan]) + 1)
    PROVE  r.status \in {"result", "gone"} \/ {"show", "delete"} \subseteq r.failed
  <1> DEFINE P == Plan[r.plan]
  <1>1. Sound(P)
    BY PlansAreSound DEF IsJob
  <1> HIDE DEF P
  <1>2. \A k \in 1..Len(P) : k \in r.did \/ (P[k].do \in r.failed /\ "next" \in P[k].else)
    <2>1. Len(P) \in Nat /\ Passed(r, Len(P) + 1)
      BY <1>1 DEF Going, Sound, P
    <2>2. \A k \in 1..Len(P) : k < Len(P) + 1
      BY <2>1
    <2> QED BY <2>1, <2>2 DEF Passed, P
  <1>3. \A k \in r.did : /\ P[k].do \in Endings
                         /\ \A j \in r.did : j > k => P[j].do # "busy"
          => r.status \in {"result", "gone"}
    BY DEF Going, Seen, P
  <1>4. r.did \subseteq 1..Len(P)
    BY DEF Going, P
  <1>5. CASE \E k \in 1..Len(P) : /\ P[k].do \in Endings /\ "next" \notin P[k].else
                                  /\ \A j \in 1..Len(P) : j > k => P[j].do # "busy"
    BY <1>2, <1>3, <1>4, <1>5
  <1>6. CASE /\ \A j \in 1..Len(P) : P[j].do # "busy"
             /\ \E i, k \in 1..Len(P) : P[i].do = "show" /\ P[k].do = "delete"
    <2>1. PICK i \in 1..Len(P), k \in 1..Len(P) : P[i].do = "show" /\ P[k].do = "delete"
      BY <1>6
    <2>2. CASE i \in r.did
      BY <1>3, <1>4, <1>6, <2>1, <2>2 DEF Endings
    <2>3. CASE k \in r.did
      BY <1>3, <1>4, <1>6, <2>1, <2>3 DEF Endings
    <2>4. CASE i \notin r.did /\ k \notin r.did
      BY <1>2, <2>1, <2>4
    <2> QED BY <2>2, <2>3, <2>4
  <1> QED BY <1>1, <1>5, <1>6 DEF Sound

\* What the invariant of a command says of one that ended well.
LEMMA JobTells ==
    ASSUME NEW r, JobInv(r), r.at = "done", ~r.raised
    PROVE  /\ r.status \in {"usage", "result", "gone", "error"} \/ {"show", "delete"} \subseteq r.failed
           /\ r.status \in {"result", "gone"} /\ r.failed \cap Effects = {} =>
                \A k \in DOMAIN Plan[r.plan] : Plan[r.plan][k].do \in Effects => k \in r.did
           /\ r.status = "error" /\ r.failed \cap {"show", "delete"} = {} => Achieved(r) = {}
  <1>1. CASE r.status = "usage"
    BY <1>1
  <1>2. CASE r.status = "error" /\ Undone(r)
    BY <1>2 DEF Undone, Achieved, Endings
  <1>3. CASE Going(r, Len(Plan[r.plan]) + 1)
    <2>1. r.status \in {"result", "gone"} \/ {"show", "delete"} \subseteq r.failed
      BY <1>3, AllDone DEF JobInv
    <2>2. Sound(Plan[r.plan])
      BY PlansAreSound DEF JobInv, IsJob
    <2>3. \A k \in 1..Len(Plan[r.plan]) : k \in r.did \/ Plan[r.plan][k].do \in r.failed
      <3>1. Len(Plan[r.plan]) \in Nat /\ Passed(r, Len(Plan[r.plan]) + 1)
        BY <1>3, <2>2 DEF Going, Sound
      <3>2. \A k \in 1..Len(Plan[r.plan]) : k < Len(Plan[r.plan]) + 1
        BY <3>1
      <3> QED BY <3>1, <3>2 DEF Passed
    <2>4. DOMAIN Plan[r.plan] = 1..Len(Plan[r.plan])
      BY <2>2 DEF Sound
    <2>5. r.status # "error"
      BY <1>3 DEF Going
    <2> QED BY <2>1, <2>3, <2>4, <2>5
  <1> QED BY <1>1, <1>2, <1>3 DEF JobInv

\* What it is to go on.
LEMMA OnwardsSteps ==
    ASSUME NEW r, DOMAIN r = JobFields, NEW t, t = Onwards(r)
    PROVE  /\ DOMAIN t = JobFields /\ t.plan = r.plan /\ t.id = r.id /\ t.status = r.status
           /\ t.did = r.did /\ t.failed = r.failed /\ t.raised = r.raised /\ t.sees = r.sees
           /\ r.step = Len(Plan[r.plan]) => t.at = "done" /\ t.step = r.step
           /\ r.step # Len(Plan[r.plan]) => t.at = r.at /\ t.step = r.step + 1
  BY DEF Onwards, JobFields

\* A step that had its turn, and after it the next one, or the end.
LEMMA GoesOn ==
    ASSUME NEW u, IsJob(u), u.at = "runs", Going(u, u.step + 1), NEW t, t = Onwards(u)
    PROVE  JobInv(t)
  <1>1. Sound(Plan[u.plan])
    BY PlansAreSound DEF IsJob
  <1>2. /\ DOMAIN t = JobFields /\ t.plan = u.plan /\ t.id = u.id /\ t.status = u.status
        /\ t.did = u.did /\ t.failed = u.failed /\ t.raised = u.raised /\ t.sees = u.sees
        /\ u.step = Len(Plan[u.plan]) => t.at = "done" /\ t.step = u.step
        /\ u.step # Len(Plan[u.plan]) => t.at = u.at /\ t.step = u.step + 1
    BY OnwardsSteps DEF IsJob
  <1>3. Len(Plan[u.plan]) \in Nat /\ u.step \in 1..Len(Plan[u.plan])
    BY <1>1 DEF Sound, IsJob
  <1>4. Going(t, u.step + 1)
    BY <1>2 DEF Going, Passed, Seen
  <1>5. IsJob(t)
    BY <1>2, <1>3 DEF IsJob
  <1>6. CASE u.step = Len(Plan[u.plan])
    BY <1>2, <1>4, <1>5, <1>6 DEF JobInv
  <1>7. CASE u.step # Len(Plan[u.plan])
    BY <1>2, <1>4, <1>5, <1>7 DEF JobInv
  <1> QED BY <1>6, <1>7

\* A step is done.
LEMMA DoneGoesOn ==
    ASSUME NEW r, JobInv(r), r.at = "runs", NEW b,
           NEW u, u = [r EXCEPT !.status = Status(@, Plan[r.plan][r.step].do),
                                !.did = @ \cup {r.step}, !.sees = b]
    PROVE  IsJob(u) /\ Going(u, u.step + 1)
  <1> DEFINE what == Plan[r.plan][r.step].do
  <1>1. IsJob(r) /\ Going(r, r.step)
    BY DEF JobInv
  <1>2. /\ DOMAIN u = JobFields /\ u.plan = r.plan /\ u.id = r.id /\ u.at = r.at /\ u.step = r.step
        /\ u.failed = r.failed /\ u.raised = r.raised
        /\ u.did = r.did \cup {r.step} /\ u.status = Status(r.status, what)
    BY <1>1 DEF IsJob, JobFields
  <1>3. Sound(Plan[r.plan]) /\ r.step \in 1..Len(Plan[r.plan]) /\ Len(Plan[r.plan]) \in Nat
    BY <1>1, PlansAreSound DEF IsJob, Sound
  <1>4. /\ what = "busy" => u.status = "busy"
        /\ what = "show" => u.status = "result"
        /\ what = "delete" => u.status = "gone"
        /\ what \notin {"busy", "show", "delete"} => u.status = r.status
    BY <1>2 DEF Status
  <1> HIDE DEF what
  <1>5. Passed(u, u.step + 1)
    BY <1>1, <1>2, <1>3 DEF Going, Passed
  <1>6. \A k \in u.did : k \in 1..Len(Plan[u.plan]) /\ k < u.step + 1
    BY <1>1, <1>2, <1>3 DEF Going
  <1>7. u.status \notin {"usage", "error"}
    BY <1>1, <1>2, <1>4 DEF Going
  <1>8. Seen(u)
    <2> SUFFICES ASSUME NEW k \in u.did, Plan[r.plan][k].do \in Endings,
                        \A j \in u.did : j > k => Plan[r.plan][j].do # "busy"
                 PROVE  u.status \in {"result", "gone"}
      BY <1>2 DEF Seen
    <2>1. CASE what \in Endings
      BY <1>4, <2>1 DEF Endings
    <2>2. CASE what \notin Endings
      <3>1. k # r.step
        BY <2>2 DEF what
      <3>2. k \in r.did /\ k < r.step
        BY <1>1, <1>2, <3>1 DEF Going
      <3>3. what # "busy"
        BY <1>1, <1>2, <3>2 DEF what
      <3>4. u.status = r.status
        BY <1>4, <2>2, <3>3 DEF Endings
      <3>5. r.status \in {"result", "gone"}
        BY <1>1, <1>2, <3>2 DEF Going, Seen
      <3> QED BY <3>4, <3>5
    <2> QED BY <2>1, <2>2
  <1> QED BY <1>1, <1>2, <1>5, <1>6, <1>7, <1>8 DEF IsJob, Going

\* A step took place, and the command does not know.
LEMMA LandedGoes ==
    ASSUME NEW r, JobInv(r), r.at = "runs",
           NEW u, u = [r EXCEPT !.status = Status(@, Plan[r.plan][r.step].do)]
    PROVE  /\ JobInv(u) /\ u.at = "runs" /\ u.plan = r.plan /\ u.id = r.id /\ u.step = r.step
           /\ u.failed = r.failed /\ u.status = Status(r.status, Plan[r.plan][r.step].do)
  <1> DEFINE what == Plan[r.plan][r.step].do
  <1>1. IsJob(r) /\ Going(r, r.step)
    BY DEF JobInv
  <1>2. /\ DOMAIN u = JobFields /\ u.plan = r.plan /\ u.id = r.id /\ u.at = "runs" /\ u.step = r.step
        /\ u.failed = r.failed /\ u.did = r.did /\ u.status = Status(r.status, what)
    BY <1>1 DEF IsJob, JobFields
  <1>3. Sound(Plan[r.plan]) /\ r.step \in 1..Len(Plan[r.plan])
    BY <1>1, PlansAreSound DEF IsJob
  <1>4. /\ what = "busy" => u.status = "busy"
        /\ what = "show" => u.status = "result"
        /\ what = "delete" => u.status = "gone"
        /\ what \notin {"busy", "show", "delete"} => u.status = r.status
    BY <1>2 DEF Status
  <1>5. u.status \notin {"usage", "error"}
    BY <1>1, <1>4 DEF Going
  <1>6. Seen(u)
    <2> SUFFICES ASSUME NEW k \in r.did, Plan[r.plan][k].do \in Endings,
                        \A j \in r.did : j > k => Plan[r.plan][j].do # "busy"
                 PROVE  u.status \in {"result", "gone"}
      BY <1>2 DEF Seen
    <2>1. k \in 1..Len(Plan[r.plan]) /\ k < r.step /\ r.status \in {"result", "gone"}
      BY <1>1 DEF Going, Seen
    <2>2. what # "busy"
      BY <1>3, <2>1 DEF Sound
    <2> HIDE DEF what
    <2> QED BY <1>4, <2>1, <2>2
  <1>7. Going(u, u.step)
    BY <1>1, <1>2, <1>5, <1>6 DEF Going, Passed
  <1> QED BY <1>1, <1>2, <1>7 DEF JobInv, IsJob

\* A step fails, and what follows is one of its ways.
LEMMA FailsOnwards ==
    ASSUME NEW r, JobInv(r), r.at = "runs", NEW way \in Plan[r.plan][r.step].else,
           NEW t, t = Follows(r, Plan[r.plan][r.step].do, way)
    PROVE  /\ JobInv(t) /\ t.plan = r.plan /\ t.id = r.id /\ t.status = r.status
           /\ t.failed = r.failed \cup {Plan[r.plan][r.step].do}
           /\ t.at = "runs" => "next" \in Plan[r.plan][r.step].else /\ t.step = r.step + 1
  <1> DEFINE what == Plan[r.plan][r.step].do
             f    == [r EXCEPT !.failed = @ \cup {what}]
  <1>1. IsJob(r) /\ Going(r, r.step)
    BY DEF JobInv
  <1>2. /\ DOMAIN f = JobFields /\ f.plan = r.plan /\ f.id = r.id /\ f.at = r.at /\ f.step = r.step
        /\ f.failed = r.failed \cup {what} /\ f.raised = r.raised
        /\ f.did = r.did /\ f.status = r.status
    BY <1>1 DEF IsJob, JobFields
  <1>3. Sound(Plan[r.plan]) /\ r.step \in 1..Len(Plan[r.plan]) /\ Len(Plan[r.plan]) \in Nat
    BY <1>1, PlansAreSound DEF IsJob, Sound
  <1>4. way \in {"raise", "tell", "retell", "next"}
    BY <1>3 DEF Sound
  <1>5. /\ way = "raise" => t = [f EXCEPT !.at = "done", !.raised = TRUE]
        /\ way = "next" => t = Onwards(f)
        /\ way = "tell" => t = [f EXCEPT !.at = "tells"]
        /\ way = "retell" => t = [f EXCEPT !.at = "tells", !.again = TRUE]
    BY DEF Follows
  <1> HIDE DEF f
  <1>6. CASE way = "raise"
    <2>1. t = [f EXCEPT !.at = "done", !.raised = TRUE]
      BY <1>5, <1>6
    <2>2. /\ DOMAIN t = JobFields /\ t.plan = r.plan /\ t.id = r.id /\ t.at = "done" /\ t.step = r.step
          /\ t.failed = f.failed /\ t.raised = TRUE /\ t.status = r.status
      BY <1>2, <2>1 DEF JobFields
    <2> QED BY <1>1, <1>2, <2>2 DEF JobInv, IsJob
  <1>7. CASE way = "next"
    <2>1. t = Onwards(f)
      BY <1>5, <1>7
    <2>2. Passed(f, f.step + 1)
      <3> SUFFICES ASSUME NEW k \in 1..Len(Plan[r.plan]), k < r.step + 1
                   PROVE  k \in f.did \/ (Plan[r.plan][k].do \in f.failed /\ "next" \in Plan[r.plan][k].else)
        BY <1>2 DEF Passed
      <3>1. CASE k = r.step
        BY <1>2, <1>7, <3>1
      <3>2. CASE k < r.step
        BY <1>1, <1>2, <3>2 DEF Going, Passed
      <3> QED BY <1>3, <3>1, <3>2
    <2>3. Going(f, f.step + 1)
      BY <1>1, <1>2, <1>3, <2>2 DEF Going, Seen
    <2>4. IsJob(f)
      BY <1>1, <1>2 DEF IsJob
    <2>5. JobInv(t)
      BY <1>2, <2>1, <2>3, <2>4, GoesOn
    <2>6. /\ t.plan = f.plan /\ t.id = f.id /\ t.status = f.status /\ t.failed = f.failed
          /\ t.at = "runs" => t.step = f.step + 1
      BY <1>2, <1>3, <2>1, OnwardsSteps
    <2> QED BY <1>2, <1>7, <2>5, <2>6
  <1>8. CASE way \in Telling
    <2>1. /\ DOMAIN t = JobFields /\ t.plan = r.plan /\ t.id = r.id /\ t.at = "tells" /\ t.step = r.step
          /\ t.failed = f.failed /\ t.status = r.status /\ t.did = r.did
      BY ZenonT(60), <1>2, <1>5, <1>8 DEF JobFields, Telling
    <2>2. Undone(t)
      <3> SUFFICES ASSUME t.failed \cap Endings = {}, NEW k \in t.did
                   PROVE  Plan[r.plan][k].do \notin Effects
        BY <2>1 DEF Undone
      <3>1. what \notin Endings
        BY <1>2, <2>1
      <3>2. k \in 1..Len(Plan[r.plan]) /\ k < r.step
        BY <1>1, <2>1 DEF Going
      <3>3. Plan[r.plan][r.step].else \cap Telling # {}
        BY <1>8
      <3> QED BY <1>3, <3>1, <3>2, <3>3 DEF Sound, what
    <2> QED BY <1>1, <1>2, <2>1, <2>2 DEF JobInv, IsJob
  <1> QED BY <1>4, <1>6, <1>7, <1>8 DEF Telling

-----------------------------------------------------------------------------
(* All the commands, the pack and the saved messages.                      *)

\* A sticker that is reported, or about to be, is in the pack.
Placed(r, thePack) ==
    r.plan = "sticker" /\ (r.status = "result" \/ (r.at = "runs" /\ r.step = 9)) => r.id \in thePack

\* A file among the saved messages: to be deleted next, or not deleted for a reason.
Copied(r, saved) ==
    r.id \in saved =>
      \/ r.failed \cap {"copy", "uncopy"} # {} \/ r.at = "lost"
      \/ r.at = "runs" /\ Plan[r.plan][r.step].do = "uncopy"

JInv ==
    /\ DOMAIN jobs = Worker /\ orders \in Nat /\ copies \subseteq 1..orders
    /\ \A w \in Worker : /\ JobInv(jobs[w]) /\ Placed(jobs[w], pack) /\ Copied(jobs[w], copies)
                         /\ jobs[w].id <= orders
                         /\ jobs[w].at = "runs" => jobs[w].id # 0
    /\ \A w, v \in Worker : w # v /\ jobs[w].id # 0 => jobs[v].id # jobs[w].id

\* The turn of one command, old or new.
LEMMA OneTurn ==
    ASSUME JInv, NEW w \in Worker, NEW t, jobs' = [jobs EXCEPT ![w] = t], JobInv(t),
           \/ t.id = jobs[w].id /\ orders' = orders
           \/ t.id = orders + 1 /\ orders' = orders + 1,
           t.at = "runs" => t.id # 0,
           pack \subseteq pack', Placed(t, pack'), Copied(t, copies'),
           \/ copies' \subseteq copies
           \/ t.id # 0 /\ copies' = copies \cup {t.id}
    PROVE  JInv'
  <1>1. DOMAIN jobs' = Worker /\ jobs'[w] = t /\ \A v \in Worker \ {w} : jobs'[v] = jobs[v]
    BY DEF JInv
  <1>2. \A v \in Worker : jobs[v].id \in Nat /\ jobs[v].id <= orders
    BY DEF JInv, JobInv, IsJob
  <1>3. t.id \in Nat /\ orders \in Nat
    BY DEF JInv, JobInv, IsJob
  <1>4. orders' \in Nat /\ orders <= orders' /\ t.id <= orders'
    BY <1>2, <1>3
  <1>5. copies' \subseteq 1..orders'
    <2>1. \A i \in copies : i \in 1..orders'
      <3> TAKE i \in copies
      <3>1. i \in 1..orders
        BY DEF JInv
      <3> QED BY <1>3, <1>4, <3>1
    <2>2. t.id # 0 => t.id \in 1..orders'
      BY <1>3, <1>4
    <2> QED BY <2>1, <2>2
  <1>6. ASSUME NEW v \in Worker \ {w}
        PROVE  jobs[v].id # 0 => jobs[v].id # t.id
    BY <1>2, <1>3, <1>6 DEF JInv
  <1>7. \A v \in Worker \ {w} : Copied(jobs[v], copies')
    <2> SUFFICES ASSUME NEW v \in Worker \ {w}, jobs[v].id \in copies'
                 PROVE  jobs[v].id \in copies
      BY DEF JInv, Copied
    <2>1. jobs[v].id # 0
      BY <1>5
    <2> QED BY <1>6, <2>1
  <1>8. \A v \in Worker \ {w} : Placed(jobs[v], pack')
    BY DEF JInv, Placed
  <1>9. \A v \in Worker : JobInv(jobs'[v]) /\ Placed(jobs'[v], pack') /\ Copied(jobs'[v], copies')
    BY <1>1, <1>7, <1>8 DEF JInv
  <1>10. \A v \in Worker : jobs'[v].id <= orders' /\ (jobs'[v].at = "runs" => jobs'[v].id # 0)
    <2> TAKE v \in Worker
    <2>1. CASE v = w
      BY <1>1, <1>4, <2>1
    <2>2. CASE v # w
      BY <1>1, <1>2, <1>3, <1>4, <2>2 DEF JInv
    <2> QED BY <2>1, <2>2
  <1>11. ASSUME NEW x \in Worker, NEW y \in Worker, x # y, jobs'[x].id # 0
         PROVE  jobs'[y].id # jobs'[x].id
    <2>1. CASE x = w
      BY <1>1, <1>6, <1>11, <2>1
    <2>2. CASE y = w
      BY <1>1, <1>6, <1>11, <2>2
    <2>3. CASE x # w /\ y # w
      BY <1>1, <1>11, <2>3 DEF JInv
    <2> QED BY <2>1, <2>2, <2>3
  <1> QED BY <1>1, <1>4, <1>5, <1>9, <1>10, <1>11 DEF JInv

LEMMA JobStarts ==
    ASSUME JInv, NEW w \in Worker, NEW c \in DOMAIN Plan, StartJob(w, c)
    PROVE  JInv'
  <1> DEFINE t == [NoJob EXCEPT !.plan = c, !.id = orders + 1, !.at = "runs"]
  <1>1. /\ jobs' = [jobs EXCEPT ![w] = t] /\ orders' = orders + 1 /\ pack' = pack /\ copies' = copies
    BY DEF StartJob, Set, Ordered
  <1>2. /\ DOMAIN t = JobFields /\ t.plan = c /\ t.id = orders + 1 /\ t.at = "runs" /\ t.step = 1
        /\ t.status = "asked" /\ t.did = {}
    BY DEF NoJob, JobFields
  <1> HIDE DEF t
  <1>3. orders \in Nat /\ copies \subseteq 1..orders
    BY DEF JInv
  <1>4. Len(Plan[c]) \in Nat /\ Len(Plan[c]) >= 1
    BY PlansAreSound DEF Sound
  <1>5. JobInv(t)
    <2>1. IsJob(t)
      BY <1>2, <1>3, <1>4 DEF IsJob
    <2>2. Going(t, t.step)
      BY <1>2, <1>4 DEF Going, Passed, Seen
    <2> QED BY <1>2, <2>1, <2>2 DEF JobInv
  <1>6. Placed(t, pack')
    BY <1>2 DEF Placed
  <1>7. Copied(t, copies')
    BY <1>1, <1>2, <1>3 DEF Copied
  <1>8. t.id # 0
    BY <1>2, <1>3
  <1> QED BY <1>1, <1>2, <1>5, <1>6, <1>7, <1>8, OneTurn

\* What a running command is like, and what it leaves as it is.
LEMMA JobRuns ==
    ASSUME JInv, NEW w \in Worker, Running(w)
    PROVE  /\ JobInv(jobs[w]) /\ IsJob(jobs[w]) /\ jobs[w].at = "runs" /\ jobs[w].id # 0
           /\ Placed(jobs[w], pack) /\ Copied(jobs[w], copies)
           /\ Sound(Plan[jobs[w].plan]) /\ jobs[w].step \in 1..Len(Plan[jobs[w].plan])
           /\ Len(Plan[jobs[w].plan]) \in Nat
  <1>1. JobInv(jobs[w]) /\ jobs[w].at = "runs" /\ jobs[w].id # 0 /\ Placed(jobs[w], pack) /\ Copied(jobs[w], copies)
    BY DEF JInv, Running
  <1>2. IsJob(jobs[w])
    BY <1>1 DEF JobInv
  <1>3. Sound(Plan[jobs[w].plan])
    BY <1>2, PlansAreSound DEF IsJob
  <1> QED BY <1>1, <1>2, <1>3 DEF IsJob, Sound

LEMMA UsageShown ==
    ASSUME JInv, NEW w \in Worker, ShowsUsage(w)
    PROVE  JInv'
  <1> DEFINE r == jobs[w]
             t == [r EXCEPT !.at = "done", !.status = "usage"]
  <1>1. /\ Running(w) /\ r.step = 1 /\ jobs' = [jobs EXCEPT ![w] = t] /\ orders' = orders
        /\ pack' = pack /\ copies' = copies
    BY DEF ShowsUsage, Set, Calm, envVars
  <1>2. /\ JobInv(r) /\ IsJob(r) /\ r.at = "runs" /\ Copied(r, copies) /\ Sound(Plan[r.plan])
    BY <1>1, JobRuns
  <1> HIDE DEF r
  <1>3. /\ DOMAIN t = JobFields /\ t.plan = r.plan /\ t.id = r.id /\ t.at = "done" /\ t.step = r.step
        /\ t.status = "usage" /\ t.failed = r.failed
    BY <1>2 DEF IsJob, JobFields
  <1> HIDE DEF t
  <1>4. JobInv(t)
    BY <1>2, <1>3 DEF JobInv, IsJob
  <1>5. Placed(t, pack')
    BY <1>3 DEF Placed
  <1>6. Copied(t, copies')
    BY <1>1, <1>2, <1>3 DEF Copied, Sound
  <1> QED BY <1>1, <1>3, <1>4, <1>5, <1>6, OneTurn DEF r

LEMMA StepIsDone ==
    ASSUME JInv, NEW w \in Worker, StepDone(w)
    PROVE  JInv'
  <1> DEFINE r == jobs[w]
             what == Plan[r.plan][r.step].do
             b == IF what = "look" THEN pack # {} ELSE r.sees
             u == [r EXCEPT !.status = Status(@, what), !.did = @ \cup {r.step}, !.sees = b]
             t == Onwards(u)
  <1>1. /\ Running(w) /\ jobs' = [jobs EXCEPT ![w] = t] /\ orders' = orders
        /\ pack' = IF what = "place" THEN pack \cup {r.id} ELSE pack
        /\ copies' = CASE what = "copy" -> copies \cup {r.id} [] what = "uncopy" -> copies \ {r.id}
                       [] OTHER -> copies
    BY DEF StepDone, Lands, Set, Now, Calm, envVars
  <1>2. /\ JobInv(r) /\ IsJob(r) /\ r.at = "runs" /\ r.id # 0 /\ Placed(r, pack) /\ Copied(r, copies)
        /\ Sound(Plan[r.plan]) /\ r.step \in 1..Len(Plan[r.plan]) /\ Len(Plan[r.plan]) \in Nat
    BY <1>1, JobRuns
  <1> HIDE DEF r, b
  <1>3. IsJob(u) /\ Going(u, u.step + 1)
    BY <1>2, DoneGoesOn
  <1>4. /\ DOMAIN u = JobFields /\ u.plan = r.plan /\ u.id = r.id /\ u.at = "runs" /\ u.step = r.step
        /\ u.failed = r.failed /\ u.status = Status(r.status, what)
    BY <1>2, <1>3 DEF IsJob, JobFields
  <1> HIDE DEF u
  <1>5. JobInv(t)
    BY <1>3, <1>4, GoesOn
  <1>6. /\ t.plan = r.plan /\ t.id = r.id /\ t.status = u.status /\ t.failed = r.failed
        /\ r.step = Len(Plan[r.plan]) => t.at = "done" /\ t.step = r.step
        /\ r.step # Len(Plan[r.plan]) => t.at = "runs" /\ t.step = r.step + 1
    BY <1>4, OnwardsSteps
  <1> HIDE DEF t
  <1>7. pack \subseteq pack' /\ (what = "place" => r.id \in pack')
    BY <1>1
  <1>8. /\ what = "copy" => copies' = copies \cup {r.id}
        /\ what = "uncopy" => copies' = copies \ {r.id}
        /\ what \notin {"copy", "uncopy"} => copies' = copies
    BY <1>1
  <1>9. Placed(t, pack')
    <2> SUFFICES ASSUME r.plan = "sticker", t.status = "result" \/ (t.at = "runs" /\ t.step = 9)
                 PROVE  r.id \in pack'
      BY <1>6 DEF Placed
    <2>1. CASE t.at = "runs" /\ t.step = 9
      <3>1. r.step = 8
        BY <1>2, <1>6, <2>1, StickerPlan
      <3> QED BY <1>7, <3>1, StickerPlan
    <2>2. CASE t.status = "result"
      <3>1. what = "show" \/ r.status = "result"
        BY <1>4, <1>6, <2>2 DEF Status
      <3>2. CASE what = "show"
        <4>1. r.step = 9
          BY <1>2, <3>2, StickerPlan
        <4> QED BY <1>2, <1>7, <4>1 DEF Placed
      <3>3. CASE r.status = "result"
        BY <1>2, <1>7, <3>3 DEF Placed
      <3> QED BY <3>1, <3>2, <3>3
    <2> QED BY <2>1, <2>2
  <1>10. Copied(t, copies')
    <2> SUFFICES ASSUME r.id \in copies'
                 PROVE  \/ r.failed \cap {"copy", "uncopy"} # {}
                        \/ t.at = "runs" /\ Plan[t.plan][t.step].do = "uncopy"
      BY <1>6 DEF Copied
    <2>1. CASE what = "copy"
      <3>1. r.step < Len(Plan[r.plan]) /\ Plan[r.plan][r.step + 1].do = "uncopy"
        BY <1>2, <2>1 DEF Sound
      <3> QED BY <1>2, <1>6, <3>1
    <2>2. CASE what = "uncopy"
      BY <1>8, <2>2
    <2>3. CASE what \notin {"copy", "uncopy"}
      BY <1>2, <1>8, <2>3 DEF Copied
    <2> QED BY <2>1, <2>2, <2>3
  <1>11. copies' \subseteq copies \/ (t.id # 0 /\ copies' = copies \cup {t.id})
    BY <1>2, <1>6, <1>8
  <1>12. t.id = jobs[w].id /\ (t.at = "runs" => t.id # 0)
    BY <1>2, <1>6 DEF r
  <1> QED BY <1>1, <1>5, <1>7, <1>9, <1>10, <1>11, <1>12, OneTurn

\* A step that raises, whether or not it took place.
LEMMA RaisedGoes ==
    ASSUME JInv, NEW w \in Worker, Running(w), NEW landed \in BOOLEAN,
           NEW u, u = IF landed THEN [jobs[w] EXCEPT !.status = Status(@, Now(w).do)] ELSE jobs[w]
    PROVE  /\ JobInv(u) /\ u.at = "runs" /\ u.plan = jobs[w].plan /\ u.id = jobs[w].id
           /\ u.step = jobs[w].step /\ u.failed = jobs[w].failed
           /\ u.status = "result" => Now(w).do = "show" \/ jobs[w].status = "result"
  <1> DEFINE r == jobs[w]
             what == Plan[r.plan][r.step].do
  <1>1. JobInv(r) /\ r.at = "runs"
    BY JobRuns
  <1>2. CASE landed
    <2>1. u = [r EXCEPT !.status = Status(@, what)]
      BY <1>2 DEF Now
    <2>2. /\ JobInv(u) /\ u.at = "runs" /\ u.plan = r.plan /\ u.id = r.id /\ u.step = r.step
          /\ u.failed = r.failed /\ u.status = Status(r.status, what)
      BY <1>1, <2>1, LandedGoes
    <2>3. u.status = "result" => what = "show" \/ r.status = "result"
      <3> HIDE DEF what, r
      <3> QED BY <2>2 DEF Status
    <2> HIDE DEF r
    <2> QED BY <2>2, <2>3 DEF Now, r
  <1>3. CASE ~landed
    BY <1>1, <1>3
  <1> QED BY <1>2, <1>3

\* The command after such a step, or after it finds the pack's name taken.
LEMMA JobFails ==
    ASSUME JInv, NEW w \in Worker, Running(w), NEW u, JobInv(u), u.at = "runs",
           u.plan = jobs[w].plan, u.id = jobs[w].id, u.step = jobs[w].step, u.failed = jobs[w].failed,
           u.status = "result" => Now(w).do = "show" \/ jobs[w].status = "result",
           NEW way \in Now(w).else, Set(w, Follows(u, Now(w).do, way)), orders' = orders,
           Lands(jobs[w], Now(w).do) \/ UNCHANGED <<pack, copies>>
    PROVE  JInv'
  <1> DEFINE r == jobs[w]
             what == Plan[r.plan][r.step].do
             t == Follows(u, what, way)
  <1>1. jobs' = [jobs EXCEPT ![w] = t] /\ way \in Plan[r.plan][r.step].else
    BY DEF Set, Now
  <1>2. /\ JobInv(r) /\ IsJob(r) /\ r.at = "runs" /\ r.id # 0 /\ Placed(r, pack) /\ Copied(r, copies)
        /\ Sound(Plan[r.plan]) /\ r.step \in 1..Len(Plan[r.plan]) /\ Len(Plan[r.plan]) \in Nat
    BY JobRuns
  <1>3. /\ JobInv(u) /\ u.at = "runs" /\ u.plan = r.plan /\ u.id = r.id /\ u.step = r.step
        /\ u.failed = r.failed /\ (u.status = "result" => what = "show" \/ r.status = "result")
    BY DEF Now
  <1>4. /\ pack \subseteq pack'
        /\ \/ copies' = copies
           \/ what = "copy" /\ copies' = copies \cup {r.id}
           \/ what = "uncopy" /\ copies' = copies \ {r.id}
    BY DEF Lands, Now
  <1> HIDE DEF r
  <1>5. /\ JobInv(t) /\ t.plan = r.plan /\ t.id = r.id /\ t.status = u.status
        /\ t.failed = r.failed \cup {what}
        /\ t.at = "runs" => "next" \in Plan[r.plan][r.step].else /\ t.step = r.step + 1
    <2>1. Plan[u.plan][u.step] = Plan[r.plan][r.step]
      BY <1>3
    <2>2. way \in Plan[u.plan][u.step].else /\ t = Follows(u, Plan[u.plan][u.step].do, way)
      BY <1>1, <2>1
    <2> HIDE DEF t, what
    <2>3. /\ JobInv(t) /\ t.plan = u.plan /\ t.id = u.id /\ t.status = u.status
          /\ t.failed = u.failed \cup {Plan[u.plan][u.step].do}
          /\ t.at = "runs" => "next" \in Plan[u.plan][u.step].else /\ t.step = u.step + 1
      BY <1>3, <2>2, FailsOnwards
    <2> QED BY <1>3, <2>1, <2>3 DEF what
  <1> HIDE DEF t
  <1>6. Placed(t, pack')
    <2> SUFFICES ASSUME r.plan = "sticker", t.status = "result" \/ (t.at = "runs" /\ t.step = 9)
                 PROVE  r.id \in pack
      BY <1>4, <1>5 DEF Placed
    <2>1. CASE t.status = "result"
      <3>1. CASE what = "show"
        <4>1. r.step = 9
          BY <1>2, <3>1, StickerPlan
        <4> QED BY <1>2, <4>1 DEF Placed
      <3>2. CASE r.status = "result"
        BY <1>2, <3>2 DEF Placed
      <3> QED BY <1>3, <1>5, <2>1, <3>1, <3>2
    <2>2. CASE t.at = "runs" /\ t.step = 9
      <3>1. r.step = 8 /\ "next" \in Plan[r.plan][r.step].else
        BY <1>2, <1>5, <2>2
      <3> QED BY <3>1, StickerPlan
    <2> QED BY <2>1, <2>2
  <1>7. Copied(t, copies')
    <2>1. CASE what \in {"copy", "uncopy"}
      BY <1>5, <2>1 DEF Copied
    <2>2. CASE what \notin {"copy", "uncopy"}
      BY <1>2, <1>4, <1>5, <2>2 DEF Copied
    <2> QED BY <2>1, <2>2
  <1>8. copies' \subseteq copies \/ (t.id # 0 /\ copies' = copies \cup {t.id})
    BY <1>2, <1>4, <1>5
  <1>9. t.id = jobs[w].id /\ t.id # 0
    BY <1>2, <1>5 DEF r
  <1> QED BY <1>1, <1>4, <1>5, <1>6, <1>7, <1>8, <1>9, OneTurn

\* What is told of an error.
LEMMA ErrorTold ==
    ASSUME JInv, NEW w \in Worker, TellsError(w) \/ \E landed \in BOOLEAN : TellFails(w, landed)
    PROVE  JInv'
  <1> DEFINE r == jobs[w]
  <1>1. /\ JobInv(r) /\ IsJob(r) /\ r.at = "tells" /\ Undone(r) /\ Placed(r, pack) /\ Copied(r, copies)
    BY DEF JInv, JobInv, TellsError, TellFails
  <1>2. orders' = orders /\ pack' = pack /\ copies' = copies
    BY DEF TellsError, TellFails, Calm, Fault, envVars
  <1>3. ASSUME NEW t, jobs' = [jobs EXCEPT ![w] = t], DOMAIN t = JobFields,
               t.plan = r.plan, t.id = r.id, t.step = r.step, t.did = r.did, t.failed = r.failed,
               \/ t.at = "tells" /\ t.status \in {r.status, "error"}
               \/ t.at = "done" /\ t.raised /\ t.status \in {r.status, "error"}
               \/ t.at = "done" /\ t.status = "error"
        PROVE  JInv'
    <2>1. IsJob(t) /\ Undone(t)
      BY <1>1, <1>3 DEF IsJob, Undone
    <2>2. JobInv(t)
      BY <1>3, <2>1 DEF JobInv
    <2>3. Placed(t, pack')
      BY <1>1, <1>2, <1>3 DEF Placed
    <2>4. Copied(t, copies')
      BY <1>1, <1>2, <1>3 DEF Copied
    <2>5. t.id = jobs[w].id /\ t.at # "runs"
      BY <1>3
    <2> QED BY <1>2, <1>3, <2>2, <2>3, <2>4, <2>5, OneTurn
  <1>4. CASE TellsError(w)
    <2> DEFINE t == [r EXCEPT !.at = "done", !.status = IF @ = "gone" THEN @ ELSE "error",
                              !.raised = (r.status = "gone")]
    <2>1. jobs' = [jobs EXCEPT ![w] = t]
      <3>1. DOMAIN ErrorShown(r) = JobFields /\ t = [ErrorShown(r) EXCEPT !.at = "done", !.raised = (r.status = "gone")]
        BY <1>1 DEF ErrorShown, IsJob, JobFields
      <3> HIDE DEF t
      <3> QED BY <1>4, <3>1 DEF TellsError, Set
    <2>2. /\ DOMAIN t = JobFields /\ t.plan = r.plan /\ t.id = r.id /\ t.step = r.step
          /\ t.did = r.did /\ t.failed = r.failed /\ t.at = "done"
          /\ t.status = IF r.status = "gone" THEN r.status ELSE "error"
          /\ t.raised <=> (r.status = "gone")
      BY <1>1 DEF IsJob, JobFields
    <2> HIDE DEF t
    <2>3. CASE r.status = "gone"
      <3>1. t.raised /\ t.status = r.status
        BY <2>2, <2>3
      <3> QED BY <1>3, <2>1, <2>2, <3>1
    <2>4. CASE r.status # "gone"
      BY <1>3, <2>1, <2>2, <2>4
    <2> QED BY <2>3, <2>4
  <1>5. ASSUME NEW landed \in BOOLEAN, TellFails(w, landed)
        PROVE  JInv'
    <2>1. PICK q : q = IF landed THEN ErrorShown(r) ELSE r
      OBVIOUS
    <2>2. /\ DOMAIN q = JobFields /\ q.plan = r.plan /\ q.id = r.id /\ q.step = r.step
          /\ q.did = r.did /\ q.failed = r.failed /\ q.at = "tells" /\ q.status \in {r.status, "error"}
      BY <1>1, <2>1 DEF ErrorShown, IsJob, JobFields
    <2>3. PICK t : t = IF q.again THEN [q EXCEPT !.again = FALSE] ELSE [q EXCEPT !.at = "done", !.raised = TRUE]
      OBVIOUS
    <2>4. jobs' = [jobs EXCEPT ![w] = t]
      BY <1>5, <2>1, <2>3 DEF TellFails, Set
    <2>5. /\ DOMAIN t = JobFields /\ t.plan = r.plan /\ t.id = r.id /\ t.step = r.step
          /\ t.did = r.did /\ t.failed = r.failed /\ t.status \in {r.status, "error"}
          /\ t.at = "tells" \/ (t.at = "done" /\ t.raised)
      BY <2>2, <2>3 DEF JobFields
    <2> QED BY <1>3, <2>4, <2>5
  <1> QED BY <1>4, <1>5

\* A crash loses every command that was under way.
LEMMA JobsLost == ASSUME JInv, JobsCrash PROVE JInv'
  <1>1. orders' = orders /\ pack' = pack /\ copies' = copies /\ DOMAIN jobs' = Worker
    BY DEF JobsCrash, Fault
  <1>2. ASSUME NEW w \in Worker
        PROVE  /\ JobInv(jobs'[w]) /\ Placed(jobs'[w], pack) /\ Copied(jobs'[w], copies)
               /\ jobs'[w].id = jobs[w].id /\ jobs'[w].at # "runs"
    <2> DEFINE r == jobs[w]
               t == [r EXCEPT !.at = "lost"]
    <2>1. JobInv(r) /\ IsJob(r) /\ Placed(r, pack) /\ Copied(r, copies)
      BY DEF JInv, JobInv
    <2>2. CASE r.at \in {"runs", "tells"}
      <3>1. jobs'[w] = t
        BY <2>2 DEF JobsCrash
      <3>2. /\ DOMAIN t = JobFields /\ t.plan = r.plan /\ t.id = r.id /\ t.step = r.step
            /\ t.at = "lost" /\ t.status = r.status
        BY <2>1 DEF IsJob, JobFields
      <3> HIDE DEF t
      <3> QED BY <2>1, <3>1, <3>2 DEF JobInv, IsJob, Placed, Copied
    <2>3. CASE r.at \notin {"runs", "tells"}
      <3>1. jobs'[w] = r
        BY <2>3 DEF JobsCrash
      <3> QED BY <2>1, <2>3, <3>1
    <2> QED BY <2>2, <2>3
  <1>3. \A w, v \in Worker : w # v /\ jobs'[w].id # 0 => jobs'[v].id # jobs'[w].id
    BY <1>2 DEF JInv
  <1>4. \A w \in Worker : jobs'[w].id <= orders
    BY <1>2 DEF JInv
  <1> QED BY <1>1, <1>2, <1>3, <1>4 DEF JInv

LEMMA JobsStep == ASSUME JInv, [JobsNext]_<<envVars, jobsVars>> PROVE JInv'
  <1>1. CASE \E w \in Worker, c \in DOMAIN Plan : StartJob(w, c)
    BY <1>1, JobStarts
  <1>2. CASE \E w \in Worker : ShowsUsage(w)
    BY <1>2, UsageShown
  <1>3. CASE \E w \in Worker : StepDone(w)
    BY <1>3, StepIsDone
  <1>4. ASSUME NEW w \in Worker, NEW landed \in BOOLEAN, StepFails(w, landed)
        PROVE  JInv'
    <2>1. PICK u : u = IF landed THEN [jobs[w] EXCEPT !.status = Status(@, Now(w).do)] ELSE jobs[w]
      OBVIOUS
    <2>2. PICK way \in Now(w).else : Set(w, Follows(u, Now(w).do, way))
      BY <1>4, <2>1 DEF StepFails
    <2>3. Running(w) /\ orders' = orders /\ (Lands(jobs[w], Now(w).do) \/ UNCHANGED <<pack, copies>>)
      BY <1>4 DEF StepFails, Fault
    <2>4. /\ JobInv(u) /\ u.at = "runs" /\ u.plan = jobs[w].plan /\ u.id = jobs[w].id
          /\ u.step = jobs[w].step /\ u.failed = jobs[w].failed
          /\ u.status = "result" => Now(w).do = "show" \/ jobs[w].status = "result"
      BY <2>1, <2>3, RaisedGoes
    <2> QED BY <2>2, <2>3, <2>4, JobFails
  <1>5. ASSUME NEW w \in Worker, PackTaken(w)
        PROVE  JInv'
    <2>1. "tell" \in Now(w).else
      BY <1>5, JobRuns DEF PackTaken, Now, Sound
    <2>2. Now(w).do = "place"
      BY <1>5 DEF PackTaken
    <2>3. Running(w) /\ Set(w, Follows(jobs[w], Now(w).do, "tell")) /\ orders' = orders /\ UNCHANGED <<pack, copies>>
      BY <1>5, <2>2 DEF PackTaken, Calm, envVars
    <2>4. JobInv(jobs[w]) /\ jobs[w].at = "runs"
      BY <2>3, JobRuns
    <2> QED BY <2>1, <2>3, <2>4, JobFails
  <1>6. CASE \E w \in Worker : TellsError(w) \/ \E landed \in BOOLEAN : TellFails(w, landed)
    BY <1>6, ErrorTold
  <1>7. CASE JobsCrash
    BY <1>7, JobsLost
  <1>8. CASE UNCHANGED <<envVars, jobsVars>>
    BY <1>8 DEF envVars, jobsVars, JInv
  <1> QED BY <1>1, <1>2, <1>3, <1>4, <1>5, <1>6, <1>7, <1>8 DEF JobsNext

\* The commands at the start.
LEMMA JobsInitInv == EnvInit /\ JobsInit => JInv
  <1> SUFFICES ASSUME EnvInit, JobsInit
               PROVE  JInv
    OBVIOUS
  <1>1. orders = 0 /\ copies = {} /\ jobs = [w \in Worker |-> NoJob]
    BY DEF EnvInit, JobsInit
  <1>2. /\ DOMAIN NoJob = JobFields /\ NoJob.plan = "ping" /\ NoJob.id = 0 /\ NoJob.at = "idle"
        /\ NoJob.step = 1 /\ NoJob.status = "asked"
    BY DEF NoJob, JobFields
  <1> HIDE DEF NoJob
  <1>3. "ping" \in DOMAIN Plan
    BY DEF Plan
  <1>4. Len(Plan["ping"]) \in Nat /\ Len(Plan["ping"]) >= 1
    BY <1>3, PlansAreSound DEF Sound
  <1>5. JobInv(NoJob)
    BY <1>2, <1>3, <1>4 DEF JobInv, IsJob
  <1> QED BY <1>1, <1>2, <1>5 DEF JInv, Placed, Copied

\* A command that no exception ended tells the truth as far as it can know it, for any
\* number of commands at once and whatever calls fail, having taken place or not, in
\* any order and number: what it shows is not left at "in progress", what it reports
\* was done, an error is told before any call it was made for has returned, and a
\* sticker it reports is in the pack though others work on the same one
\* (media.py:155-160, 341-371; panel.py:539-548).
THEOREM JobsAlwaysTell == JobsSpec => []JobsTell
  <1>1. EnvInit /\ JobsInit => JInv
    BY JobsInitInv
  <1>2. JInv /\ [JobsNext]_<<envVars, jobsVars>> => JInv'
    BY JobsStep
  <1>3. JInv => JobsTell
    BY JobTells DEF JInv, JobsTell, Placed, Copied
  <1> QED BY <1>1, <1>2, <1>3, PTL DEF JobsSpec

-----------------------------------------------------------------------------
(* Kinds of value: what each part adds to its invariant so that every      *)
(* variable stays of its kind.                                             *)

OneAtMost(S) == S = {} \/ \E x : S = {x}

LEMMA OneCounts ==
    ASSUME NEW S, OneAtMost(S)
    PROVE  Cardinality(S) <= 1
  <1>1. CASE S = {}
    BY <1>1, FS_EmptySet
  <1>2. CASE \E x : S = {x}
    <2>1. PICK x : S = {x}
      BY <1>2
    <2>2. Cardinality({x}) = 1
      BY FS_Singleton
    <2> QED BY <2>1, <2>2
  <1> QED BY <1>1, <1>2 DEF OneAtMost

\* Every step of a part moves time, faults and orders within their bounds.
Moved == Calm \/ Fault \/ Ordered \/ Advance

LEMMA EnvKept == ASSUME EnvironmentAssumption, EnvTypeOK, Moved PROVE EnvTypeOK'
  BY DEF EnvironmentAssumption, EnvTypeOK, Moved, Calm, envVars, Fault, Ordered, Advance

LEMMA EnvAtFirst == ASSUME EnvironmentAssumption, EnvInit PROVE EnvTypeOK
  BY DEF EnvironmentAssumption, EnvTypeOK, EnvInit

-----------------------------------------------------------------------------
\* A table of one row, and what the owner was told of it.
RowsTInv ==
    /\ \A t \in Table : OneAtMost(row[t]) /\ OneAtMost(told[t])
    /\ \A c \in Clerk : desk[c].op \in Op /\ OneAtMost(desk[c].seen)

LEMMA RowsInit == TablesInit => RowsTInv
  BY DEF TablesInit, RowsTInv, OneAtMost, NoWork, Op

\* A command makes one row, or none, of the row it has read.
LEMMA MakesOne ==
    ASSUME NEW w, w.op \in Op, OneAtMost(w.seen)
    PROVE  OneAtMost(Makes(w))
  <1>1. PICK b : b = Blank
    OBVIOUS
  <1>2. OneAtMost(Opened(w))
    BY <1>1 DEF Opened, OneAtMost
  <1>3. \E x : Opened(w) = {x}
    <2>1. Opened(w) # {}
      BY <1>1 DEF Opened
    <2> QED BY <1>2, <2>1 DEF OneAtMost
  <1>4. PICK x : Opened(w) = {x}
    BY <1>3
  <1>5. CASE w.op \in {"save", "describe"}
    <2>1. Makes(w) = {[r EXCEPT !.val = w.val] : r \in Opened(w)}
      BY <1>5 DEF Makes, Saved, Described
    <2>2. Makes(w) = {[x EXCEPT !.val = w.val]}
      BY <1>4, <2>1
    <2> QED BY <2>2 DEF OneAtMost
  <1>6. CASE w.op = "label"
    <2>1. Makes(w) = {[r EXCEPT !.labels = @ \cup w.labels] : r \in Opened(w)}
      BY <1>6 DEF Makes, Labelled
    <2>2. Makes(w) = {[x EXCEPT !.labels = @ \cup w.labels]}
      BY <1>4, <2>1
    <2> QED BY <2>2 DEF OneAtMost
  <1>7. CASE w.op = "unlabel"
    <2>1. Makes(w) = {[r EXCEPT !.labels = @ \ w.labels] : r \in w.seen}
      BY <1>7 DEF Makes, Unlabelled
    <2>2. CASE w.seen = {}
      BY <2>1, <2>2 DEF OneAtMost
    <2>3. CASE \E y : w.seen = {y}
      <3>1. PICK y : w.seen = {y}
        BY <2>3
      <3>2. Makes(w) = {[y EXCEPT !.labels = @ \ w.labels]}
        BY <2>1, <3>1
      <3> QED BY <3>2 DEF OneAtMost
    <2> QED BY <2>2, <2>3 DEF OneAtMost
  <1>8. CASE w.op = "open"
    BY <1>2, <1>8 DEF Makes
  <1>9. CASE w.op = "drop"
    BY <1>9 DEF Makes, Dropped, OneAtMost
  <1> QED BY <1>5, <1>6, <1>7, <1>8, <1>9 DEF Op

\* ... and leaves one, or none, in the table.
LEMMA LeavesOne ==
    ASSUME RowsTInv, NEW w, w.op \in Op, OneAtMost(w.seen), w.table \in Table
    PROVE  OneAtMost(RowsAfter(w))
  <1>1. OneAtMost(Makes(w)) /\ OneAtMost(row[w.table])
    BY MakesOne DEF RowsTInv
  <1>2. OneAtMost(Inserted(w))
    <2> DEFINE id == IF w.table \in {"inbox", "memory"} THEN orders ELSE 0
    <2>1. Inserted(w) = {[n EXCEPT !.id = id] : n \in Makes(w)}
      BY DEF Inserted
    <2> HIDE DEF id
    <2>2. CASE Makes(w) = {}
      BY <2>1, <2>2 DEF OneAtMost
    <2>3. CASE \E y : Makes(w) = {y}
      <3>1. PICK y : Makes(w) = {y}
        BY <2>3
      <3>2. Inserted(w) = {[y EXCEPT !.id = id]}
        BY <2>1, <3>1
      <3> QED BY <3>2 DEF OneAtMost
    <2> QED BY <1>1, <2>2, <2>3 DEF OneAtMost
  <1>3. ASSUME NEW was, NEW new
        PROVE  OneAtMost(Merge(w.table, was, new))
    <2>1. CASE row[w.table] = {}
      BY <2>1 DEF Merge, OneAtMost
    <2>2. CASE \E y : row[w.table] = {y}
      <3>1. PICK y : row[w.table] = {y}
        BY <2>2
      <3>2. PICK z : z = [y EXCEPT !.val = IF new.val # was.val THEN new.val ELSE @,
                                   !.labels = IF new.labels # was.labels THEN new.labels ELSE @]
        OBVIOUS
      <3>3. Merge(w.table, was, new) = {z}
        BY <3>1, <3>2 DEF Merge
      <3> QED BY <3>3 DEF OneAtMost
    <2> QED BY <1>1, <2>1, <2>2 DEF OneAtMost
  <1>4. OneAtMost(Updated(w))
    <2>1. PICK was : was = CHOOSE s \in w.seen : TRUE
      OBVIOUS
    <2>2. Updated(w) = UNION {Merge(w.table, was, n) : n \in Makes(w)}
      BY <2>1 DEF Updated
    <2>3. CASE Makes(w) = {}
      BY <2>2, <2>3 DEF OneAtMost
    <2>4. CASE \E y : Makes(w) = {y}
      <3>1. PICK y : Makes(w) = {y}
        BY <2>4
      <3>2. Updated(w) = Merge(w.table, was, y)
        BY <2>2, <3>1
      <3> QED BY <1>3, <3>2
    <2> QED BY <1>1, <2>3, <2>4 DEF OneAtMost
  <1> QED BY <1>1, <1>2, <1>4 DEF RowsAfter

LEMMA ToldOne ==
    ASSUME NEW w, w.op \in Op, NEW rows, OneAtMost(rows)
    PROVE  OneAtMost(Intended(w, rows))
  <1>1. PICK r : r = IF rows = {} THEN [val |-> 0, labels |-> {}] ELSE CHOOSE x \in rows : TRUE
    OBVIOUS
  <1>2. CASE w.op \in {"save", "describe"}
    <2>1. Intended(w, rows) = {[r EXCEPT !.val = w.val]}
      BY <1>1, <1>2 DEF Intended
    <2> QED BY <2>1 DEF OneAtMost
  <1>3. CASE w.op = "label"
    <2>1. Intended(w, rows) = {[r EXCEPT !.labels = @ \cup w.labels]}
      BY <1>1, <1>3 DEF Intended
    <2> QED BY <2>1 DEF OneAtMost
  <1>4. CASE w.op = "unlabel"
    <2>1. Intended(w, rows) = IF rows = {} THEN {} ELSE {[r EXCEPT !.labels = @ \ w.labels]}
      BY <1>1, <1>4 DEF Intended
    <2>2. PICK x : x = [r EXCEPT !.labels = @ \ w.labels]
      OBVIOUS
    <2> QED BY <2>1, <2>2 DEF OneAtMost
  <1>5. CASE w.op = "open"
    <2>1. Intended(w, rows) = IF w.seen = {} THEN {r} ELSE rows
      BY <1>1, <1>5 DEF Intended
    <2> QED BY <2>1 DEF OneAtMost
  <1>6. CASE w.op = "drop"
    BY <1>6 DEF Intended, OneAtMost
  <1> QED BY <1>2, <1>3, <1>4, <1>5, <1>6 DEF Op

LEMMA RowsStep ==
    ASSUME TInv, RowsTInv, [TablesNext]_<<envVars, tablesVars>>
    PROVE  RowsTInv'
  <1>0. DOMAIN row = Table /\ DOMAIN told = Table /\ DOMAIN desk = Clerk
    BY DEF TInv
  <1>1. ASSUME NEW c \in Clerk, NEW t \in Table, NEW op, NEW v, NEW L, Asks(c, t, op, v, L)
        PROVE  RowsTInv'
    <2>1. op \in Op
      BY <1>1, ColumnsOf DEF Asks
    <2>2. PICK k : k = [at |-> "read", table |-> t, op |-> op, val |-> v, labels |-> L, seen |-> row[t]]
      OBVIOUS
    <2>3. desk' = [desk EXCEPT ![c] = k] /\ UNCHANGED <<row, told>>
      BY <1>1, <2>2 DEF Asks
    <2>4. k.op \in Op /\ OneAtMost(k.seen)
      BY <2>1, <2>2 DEF RowsTInv
    <2> QED BY <1>0, <2>3, <2>4 DEF RowsTInv
  <1>2. NoWork.op \in Op /\ OneAtMost(NoWork.seen)
    BY DEF NoWork, Op, OneAtMost
  <1>3. ASSUME NEW c \in Clerk, Writes(c) \/ RefreshFails(c)
        PROVE  RowsTInv'
    <2>1. PICK w : w = desk[c]
      OBVIOUS
    <2>2. w.op \in Op /\ OneAtMost(w.seen) /\ w.table \in Table
      BY <2>1 DEF RowsTInv, TInv, IsDesk
    <2>3. PICK left : left = RowsAfter(w)
      OBVIOUS
    <2>4. PICK meant : meant = Intended(w, told[w.table])
      OBVIOUS
    <2>5. OneAtMost(left) /\ OneAtMost(meant)
      BY <2>2, <2>3, <2>4, LeavesOne, ToldOne DEF RowsTInv
    <2>6. /\ row' = [row EXCEPT ![w.table] = left]
          /\ told' = told \/ told' = [told EXCEPT ![w.table] = meant]
          /\ desk' = [desk EXCEPT ![c] = NoWork]
      BY <1>3, <2>1, <2>3, <2>4 DEF Writes, RefreshFails, Commits
    <2>7. \A t \in Table : OneAtMost(row'[t]) /\ OneAtMost(told'[t])
      BY <1>0, <2>5, <2>6 DEF RowsTInv
    <2>8. \A p \in Clerk : desk'[p].op \in Op /\ OneAtMost(desk'[p].seen)
      BY <1>0, <1>2, <2>6 DEF RowsTInv
    <2> QED BY <2>7, <2>8 DEF RowsTInv
  <1>4. ASSUME NEW c \in Clerk, WriteFails(c)
        PROVE  RowsTInv'
    <2>1. desk' = [desk EXCEPT ![c] = NoWork] /\ UNCHANGED <<row, told>>
      BY <1>4 DEF WriteFails
    <2> QED BY <1>0, <1>2, <2>1 DEF RowsTInv
  <1>5. CASE UNCHANGED <<envVars, tablesVars>>
    BY <1>5 DEF tablesVars, RowsTInv
  <1> QED BY <1>1, <1>3, <1>4, <1>5 DEF TablesNext

LEMMA RowsHold == RowsTInv => TablesTypes
  BY OneCounts DEF RowsTInv, TablesTypes

LEMMA TablesMoved == ASSUME TablesNext PROVE Moved
  BY DEF TablesNext, Asks, Writes, RefreshFails, Commits, WriteFails, Moved

-----------------------------------------------------------------------------
\* A plugin is loaded once, and a task that unloads has an entry to unload.
EntryTInv ==
    /\ file \in Version \cup {Absent} /\ bak \in Version \cup {Absent}
    /\ OneAtMost(entry)
    /\ \A t \in Manager : managing[t].at = "shutdown" => managing[t].old # {}

LEMMA EntryInit == PluginsInit => EntryTInv
  BY DEF PluginsInit, EntryTInv, OneAtMost, Version, Free

\* One task moves on.
LEMMA TaskPut ==
    ASSUME PInv, EntryTInv, NEW t \in Manager, NEW q, managing' = [managing EXCEPT ![t] = q],
           q.at = "shutdown" => q.old # {},
           file' \in Version \cup {Absent}, bak' \in Version \cup {Absent}, OneAtMost(entry')
    PROVE  EntryTInv'
  BY DEF PInv, Tasks, EntryTInv

LEMMA EntryStep ==
    ASSUME PInv, EntryTInv, [PluginsNext]_<<envVars, pluginVars>>
    PROVE  EntryTInv'
  <1>0. /\ file \in Version \cup {Absent} /\ bak \in Version \cup {Absent} /\ OneAtMost(entry)
        /\ OneAtMost({}) /\ \A x : OneAtMost({x})
    BY DEF EntryTInv, OneAtMost
  <1>1. Free.at = "idle" /\ DOMAIN Free = {"for", "at", "old", "new", "installed"}
    BY DEF Free
  <1>2. \A t \in Manager : DOMAIN managing[t] = {"for", "at", "old", "new", "installed"}
    BY DEF PInv, Tasks, IsTask
  <1>3. ASSUME NEW t \in Manager, Unloaded(t) \/ ShutdownRaises(t)
        PROVE  EntryTInv'
    <2>1. PICK q : managing' = [managing EXCEPT ![t] = q] /\ q.at # "shutdown"
      <3>1. managing[t].for \in {"remove", "reload", "install", "load"}
        BY <1>3 DEF Unloaded, ShutdownRaises, Doing, PInv, Tasks, IsTask
      <3>2. CASE Unloaded(t)
        <4>1. PICK a : a = After[managing[t].for]
          OBVIOUS
        <4>2. a \in {"delete", "reload", "exec"}
          BY <3>1, <4>1 DEF After
        <4>3. managing' = [managing EXCEPT ![t] = [managing[t] EXCEPT !.at = a]]
          BY <3>2, <4>1 DEF Unloaded, Put
        <4>4. [managing[t] EXCEPT !.at = a].at = a
          BY <1>2
        <4> QED BY <4>2, <4>3, <4>4
      <3>3. CASE ShutdownRaises(t)
        <4>1. \/ managing' = [managing EXCEPT ![t] = Free]
              \/ managing' = [managing EXCEPT ![t] = [managing[t] EXCEPT !.at = "failed"]]
          BY <3>3 DEF ShutdownRaises, Put
        <4>2. [managing[t] EXCEPT !.at = "failed"].at = "failed"
          BY <1>2
        <4> QED BY <1>1, <4>1, <4>2
      <3> QED BY <1>3, <3>2, <3>3
    <2>2. UNCHANGED <<file, bak>> /\ entry' = {}
      BY <1>3 DEF Unloaded, ShutdownRaises, Files, Unhook
    <2> QED BY <1>0, <2>1, <2>2, TaskPut
  <1>4. ASSUME NEW t \in Manager, Exec(t) \/ Startup(t)
        PROVE  EntryTInv'
    <2>1. UNCHANGED <<file, bak>> /\ (entry' = entry \/ \E l : entry' = {l})
      BY <1>4 DEF Exec, Startup, Files
    <2>2. PICK q : managing' = [managing EXCEPT ![t] = q] /\ q.at # "shutdown"
      <3>1. CASE Exec(t)
        <4> DEFINE l == [id |-> loads + 1, v |-> Source, installed |-> managing[t].installed]
        <4>0. PICK a : a = IF ~Found \/ Source = "badCode" THEN "failed" ELSE "startup"
          OBVIOUS
        <4>1. /\ a \in {"failed", "startup"}
              /\ managing' = [managing EXCEPT ![t] = [managing[t] EXCEPT !.at = a, !.new = {l}]]
          BY <3>1, <4>0 DEF Exec, Put
        <4> HIDE DEF l
        <4>2. [managing[t] EXCEPT !.at = a, !.new = {l}].at = a
          BY <1>2
        <4> QED BY <4>1, <4>2
      <3>2. CASE Startup(t)
        <4>1. PICK a : /\ a \in {"failed", "loaded"}
                       /\ managing' = [managing EXCEPT ![t] = [managing[t] EXCEPT !.at = a]]
          BY <3>2 DEF Startup, Put
        <4>2. [managing[t] EXCEPT !.at = a].at = a
          BY <1>2
        <4> QED BY <4>1, <4>2
      <3> QED BY <1>4, <3>1, <3>2
    <2> QED BY <1>0, <2>1, <2>2, TaskPut
  <1>5. ASSUME NEW t \in Manager, NEW r, DOMAIN r = {"for", "at", "old", "new", "installed"},
               ToUnload(t, r), entry # {}
        PROVE  \E q : managing' = [managing EXCEPT ![t] = q] /\ q.old # {}
    <2>1. managing' = [managing EXCEPT ![t] = [r EXCEPT !.at = "shutdown", !.old = entry]]
      BY <1>5 DEF ToUnload, Put
    <2>2. [r EXCEPT !.at = "shutdown", !.old = entry].old = entry
      BY <1>5
    <2> QED BY <1>5, <2>1, <2>2
  <1>6. ASSUME NEW t \in Manager, Load(t)
        PROVE  EntryTInv'
    <2>1. UNCHANGED <<file, bak, entry>>
      BY <1>6 DEF Load, Files
    <2>2. PICK r : r = [managing[t] EXCEPT !.for = IF @ = "reload" THEN "load" ELSE @]
      OBVIOUS
    <2>3. ToLoad(t, r)
      BY <1>6, <2>2 DEF Load
    <2>4. DOMAIN r = {"for", "at", "old", "new", "installed"}
      BY <1>2, <2>2
    <2>5. PICK q : managing' = [managing EXCEPT ![t] = q] /\ (q.at = "shutdown" => q.old # {})
      <3>1. CASE ~Found
        <4>1. managing' = [managing EXCEPT ![t] = [r EXCEPT !.at = "failed"]]
          BY <2>3, <3>1 DEF ToLoad, Put
        <4>2. [r EXCEPT !.at = "failed"].at = "failed"
          BY <2>4
        <4> QED BY <4>1, <4>2
      <3>2. CASE Found /\ entry # {}
        <4>1. PICK s : s = [r EXCEPT !.installed = Installed]
          OBVIOUS
        <4>2. ToUnload(t, s) /\ DOMAIN s = {"for", "at", "old", "new", "installed"}
          BY <2>3, <2>4, <3>2, <4>1 DEF ToLoad
        <4> QED BY <1>5, <3>2, <4>2
      <3>3. CASE Found /\ entry = {}
        <4>1. managing' = [managing EXCEPT ![t] = [r EXCEPT !.at = "exec", !.installed = Installed]]
          BY <2>3, <3>3 DEF ToLoad, Put
        <4>2. [r EXCEPT !.at = "exec", !.installed = Installed].at = "exec"
          BY <2>4
        <4> QED BY <4>1, <4>2
      <3> QED BY <3>1, <3>2, <3>3
    <2> QED BY <1>0, <2>1, <2>5, TaskPut
  <1>7. ASSUME NEW t \in Manager, Succeeds(t) \/ RollBack(t) \/ GivesUp(t) \/ Delete(t)
        PROVE  EntryTInv'
    <2>1. entry' = entry /\ file' \in {file, bak, Absent} /\ bak' \in {bak, Absent}
      BY <1>7 DEF Succeeds, RollBack, GivesUp, Delete, Files
    <2>2. PICK q : q = [Free EXCEPT !.for = "load", !.at = "load"]
      OBVIOUS
    <2>3. q.at = "load"
      BY <1>1, <2>2
    <2>4. managing' = [managing EXCEPT ![t] = Free] \/ managing' = [managing EXCEPT ![t] = q]
      BY <1>7, <2>2 DEF Succeeds, RollBack, GivesUp, Delete, Put
    <2>5. file' \in Version \cup {Absent} /\ bak' \in Version \cup {Absent}
      BY <1>0, <2>1
    <2> QED BY <1>0, <1>1, <2>1, <2>3, <2>4, <2>5, TaskPut
  <1>8. ASSUME NEW t \in Manager, NEW v \in Version, Install(t, v)
        PROVE  EntryTInv'
    <2>1. PICK q : q = [Free EXCEPT !.for = "install", !.at = "load"]
      OBVIOUS
    <2>2. q.at = "load"
      BY <1>1, <2>1
    <2>3. /\ managing' = [managing EXCEPT ![t] = q] /\ entry' = entry /\ file' = v
          /\ bak' \in {file, bak}
      BY <1>8, <2>1 DEF Install, Put
    <2>4. file' \in Version \cup {Absent} /\ bak' \in Version \cup {Absent}
      BY <1>0, <2>3
    <2> QED BY <1>0, <2>2, <2>3, <2>4, TaskPut
  <1>9. ASSUME NEW t \in Manager, RemovePlugin(t) \/ Reload(t)
        PROVE  EntryTInv'
    <2>1. UNCHANGED <<file, bak, entry>>
      BY <1>9 DEF RemovePlugin, Reload, Files
    <2>2. PICK q : q = [Free EXCEPT !.for = "remove", !.at = "delete"]
      OBVIOUS
    <2>3. PICK r : r = [Free EXCEPT !.for = "remove"]
      OBVIOUS
    <2>4. PICK s : s = [Free EXCEPT !.for = "reload"]
      OBVIOUS
    <2>5. /\ q.at = "delete" /\ DOMAIN r = {"for", "at", "old", "new", "installed"}
          /\ DOMAIN s = {"for", "at", "old", "new", "installed"}
      BY <1>1, <2>2, <2>3, <2>4
    <2>6. \/ managing' = [managing EXCEPT ![t] = q] \/ managing' = [managing EXCEPT ![t] = Free]
          \/ entry # {} /\ (ToUnload(t, r) \/ ToUnload(t, s))
      BY <1>9, <2>2, <2>3, <2>4 DEF RemovePlugin, Reload, Put
    <2>7. \E z : managing' = [managing EXCEPT ![t] = z] /\ (z.at = "shutdown" => z.old # {})
      BY <1>1, <1>5, <2>5, <2>6
    <2> QED BY <1>0, <2>1, <2>7, TaskPut
  <1>10. CASE PluginsCrash
    <2>1. UNCHANGED <<file, bak>> /\ entry' = {}
      BY <1>10 DEF PluginsCrash, Files
    <2>2. PICK q : q = [Free EXCEPT !.for = "load", !.at = "load"]
      OBVIOUS
    <2>3. q.at = "load"
      BY <1>1, <2>2
    <2>4. \A p \in Manager : managing'[p] \in {q, Free}
      BY <1>10, <2>2 DEF PluginsCrash
    <2> QED BY <1>0, <1>1, <2>1, <2>3, <2>4 DEF EntryTInv
  <1>11. CASE UNCHANGED <<envVars, pluginVars>>
    BY <1>11 DEF pluginVars, EntryTInv
  <1> QED BY <1>3, <1>4, <1>6, <1>7, <1>8, <1>9, <1>10, <1>11 DEF PluginsNext

LEMMA EntryHolds == EntryTInv => PluginsTypes
  BY OneCounts DEF EntryTInv, PluginsTypes

LEMMA PluginsMoved == ASSUME PluginsNext PROVE Moved
  BY DEF PluginsNext, Unloaded, ShutdownRaises, Exec, Startup, Load, Succeeds, RollBack, GivesUp,
         Install, RemovePlugin, Delete, Reload, Takes, PluginsCrash, Moved

-----------------------------------------------------------------------------
\* A message saved is one that has come.
InboxTInv == inbox \subseteq DOMAIN incoming

LEMMA InboxInit == RulesInit => InboxTInv
  BY DEF RulesInit, InboxTInv

LEMMA InboxStep ==
    ASSUME RInv, InboxTInv, [RulesNext]_<<envVars, rulesVars>>
    PROVE  InboxTInv'
  <1>0. incoming \in Seq(Mail)
    BY DEF RInv, Delivered
  <1>1. ASSUME NEW m \in DOMAIN incoming, ReadRules(m) \/ ReadFails(m) \/ RunRule(m) \/ RuleFails(m)
        PROVE  InboxTInv'
    <2>1. DOMAIN incoming' = DOMAIN incoming
      BY <1>0, <1>1 DEF ReadRules, ReadFails, RunRule, RuleFails, Turn
    <2>2. inbox' \in {inbox, inbox \cup {m}}
      BY <1>1 DEF ReadRules, ReadFails, RunRule, RuleFails
    <2> QED BY <1>1, <2>1, <2>2 DEF InboxTInv
  <1>2. ASSUME NEW k, MessageComes(k)
        PROVE  InboxTInv'
    <2>1. PICK p : incoming' = Append(incoming, p) /\ inbox' = inbox
      BY <1>2 DEF MessageComes
    <2>2. DOMAIN incoming \subseteq DOMAIN incoming'
      BY <1>0, <2>1
    <2> QED BY <2>1, <2>2 DEF InboxTInv
  <1>3. CASE RulesCrash
    BY <1>3 DEF RulesCrash, InboxTInv
  <1>4. ASSUME NEW e \in Engines, NEW r \in RuleId,
               \/ DeleteRule(e, r) \/ \E s \in Shape : CreateRule(e, r, s)
               \/ \E b \in BOOLEAN : ToggleRule(e, r, b)
        PROVE  InboxTInv'
    BY <1>4 DEF DeleteRule, CreateRule, ToggleRule, Keep, InboxTInv
  <1>5. CASE (\E b \in BOOLEAN : SwitchNotifications(b)) \/ UNCHANGED <<envVars, rulesVars>>
    BY <1>5 DEF SwitchNotifications, rulesVars, InboxTInv
  <1> QED BY <1>1, <1>2, <1>3, <1>4, <1>5 DEF RulesNext

LEMMA InboxHolds == RInv /\ InboxTInv => RulesTypes
  <1> SUFFICES ASSUME RInv, InboxTInv PROVE RulesTypes
    OBVIOUS
  <1>1. ASSUME NEW m \in DOMAIN incoming
        PROVE  (incoming[m].at = "run") = (incoming[m].left # {}) /\ incoming[m].in \in 1..3
    BY <1>1 DEF RInv, Delivered, IsMessage
  <1> QED BY <1>1 DEF RInv, InTurn, InboxTInv, RulesTypes

LEMMA RulesMoved == ASSUME RulesNext PROVE Moved
  BY DEF RulesNext, DeleteRule, CreateRule, ToggleRule, SwitchNotifications, MessageComes, ReadRules,
         ReadFails, RunRule, RuleFails, RulesCrash, Moved

-----------------------------------------------------------------------------
\* A message is with a watcher, or done; a deque holds, and a watcher deletes,
\* messages that came; a member has one answer in the cache and one count.
OnItsWay(p) == /\ p.at \in {"asks", "acts", "deletes", "done"}
               /\ p.at = "done" <=> p.stage > 4

GroupTInv ==
    /\ filtering \subseteq Filter
    /\ DOMAIN warnRow = Member /\ DOMAIN tracker = Member
    /\ \A m \in Member : OneAtMost(cache[m]) /\ OneAtMost(warnRow[m])
    /\ \A i \in DOMAIN posts : OnItsWay(posts[i])
    /\ \A m \in Member : \A e \in tracker[m] : e[2] \in DOMAIN posts
    /\ doomed \subseteq DOMAIN posts

LEMMA GroupTypesInit == GuardInit => GroupTInv
  BY DEF GuardInit, GroupTInv, OneAtMost

LEMMA OnwardGoes ==
    ASSUME GInv, NEW p, IsPost(p), NEW from \in 1..6
    PROVE  OnItsWay(Onward(p, from))
  <1> DEFINE left == {k \in from..Len(Stages) :
                        Wants(p, Stages[k]) /\ ~(Fresh(p.from) /\ KnownAdmin(p.from))}
             done == [p EXCEPT !.stage = Len(Stages) + 1, !.at = "done", !.since = 0, !.doom = {}]
             next == [p EXCEPT !.stage = Min(left),
                               !.at = IF Fresh(p.from) THEN "acts" ELSE "asks",
                               !.since = now, !.doom = {}]
  <1>1. Onward(p, from) = IF left = {} THEN done ELSE next
    BY DEF Onward
  <1>2. Len(Stages) = 4
    BY DEF Stages
  <1>3. CASE left = {}
    <2>1. done.at = "done" /\ done.stage = 5
      BY <1>2 DEF IsPost
    <2> QED BY <1>1, <1>3, <2>1 DEF OnItsWay
  <1>4. CASE left # {}
    <2>1. left \subseteq 1..4
      BY <1>2
    <2>2. Min(left) \in 1..4
      <3> HIDE DEF left
      <3> QED BY <1>4, <2>1, FirstStage
    <2>3. next.stage = Min(left) /\ next.at \in {"acts", "asks"}
      <3> HIDE DEF left
      <3> QED BY DEF IsPost
    <2> HIDE DEF left, next
    <2> QED BY <1>1, <1>4, <2>2, <2>3 DEF OnItsWay
  <1> QED BY <1>3, <1>4

\* One message moves; of its sender there may be news, and messages that came
\* are told apart to be counted or deleted.
LEMMA PostGoes ==
    ASSUME GInv, GroupTInv, NEW i \in DOMAIN posts, NEW q, OnItsWay(q),
           posts' = [posts EXCEPT ![i] = q], NEW from \in Member, NEW W, NEW D,
           UNCHANGED <<filtering, warnRow>>,
           cache' = cache \/ \E e : cache' = [cache EXCEPT ![from] = {e}],
           tracker' = tracker \/ tracker' = [tracker EXCEPT ![from] = W],
           \A e \in W : e[2] \in DOMAIN posts,
           D \subseteq DOMAIN posts, doomed' = doomed \cup D
    PROVE  GroupTInv'
  <1>1. DOMAIN posts' = DOMAIN posts /\ \A j \in DOMAIN posts : posts'[j] = IF j = i THEN q ELSE posts[j]
    <2>1. PICK n \in Nat : posts = [j \in 1..n |-> posts[j]]
      BY ASequence DEF GInv, Underway
    <2> QED BY <2>1
  <1>2. \A j \in DOMAIN posts' : OnItsWay(posts'[j])
    BY <1>1 DEF GroupTInv
  <1>3. \A m \in Member : OneAtMost(cache'[m])
    BY DEF GroupTInv, GInv, Answered, OneAtMost
  <1>4. DOMAIN tracker' = Member /\ \A m \in Member : \A e \in tracker'[m] : e[2] \in DOMAIN posts
    BY DEF GroupTInv
  <1>5. doomed' \subseteq DOMAIN posts
    BY DEF GroupTInv
  <1> QED BY <1>1, <1>2, <1>3, <1>4, <1>5 DEF GroupTInv, OnItsWay

LEMMA WatcherTypes ==
    ASSUME GuardAssumption, GInv, GroupTInv, WatcherNext
    PROVE  GroupTInv'
  <1> SUFFICES ASSUME NEW i \in DOMAIN posts,
                      \/ Answers(i) \/ AnswerFails(i) \/ LinkDeletes(i) \/ SpamCounts(i) \/ SpamWarns(i)
                      \/ \E b \in BOOLEAN : PornJudges(i, b) \/ WordActs(i, b)
               PROVE  GroupTInv'
    BY DEF WatcherNext
  <1>1. IsPost(posts[i]) /\ posts[i].stage + 1 \in 1..6 /\ posts[i].from \in Member
    BY DEF GInv, Underway, IsPost
  <1>2. PICK go : go = Onward(posts[i], posts[i].stage + 1) /\ OnItsWay(go)
    BY <1>1, OnwardGoes
  <1>3. UNCHANGED <<filtering, warnRow>>
    BY DEF Answers, AnswerFails, LinkDeletes, SpamCounts, SpamWarns, PornJudges, WordActs, Quiet
  <1>4. CASE Answers(i) \/ AnswerFails(i)
    <2>1. PICK is : Learns(i, is)
      BY <1>4 DEF Answers, AnswerFails
    <2>2. UNCHANGED <<tracker, doomed>>
      BY <1>4 DEF Answers, AnswerFails, History
    <2>3. PICK q : q = IF is THEN go ELSE [posts[i] EXCEPT !.at = "acts"]
      OBVIOUS
    <2>4. posts' = [posts EXCEPT ![i] = q] /\ posts[i].at = "asks"
      BY <1>2, <2>1, <2>3 DEF Learns
    <2>5. OnItsWay(q)
      <3>1. OnItsWay(posts[i])
        BY DEF GroupTInv
      <3>2. [posts[i] EXCEPT !.at = "acts"].at = "acts"
            /\ [posts[i] EXCEPT !.at = "acts"].stage = posts[i].stage
        BY <1>1 DEF IsPost
      <3> QED BY <1>2, <2>3, <2>4, <3>1, <3>2 DEF OnItsWay
    <2>6. \E e : cache' = [cache EXCEPT ![posts[i].from] = {e}]
      BY <2>1 DEF Learns
    <2>7. PICK none : none = {}
      OBVIOUS
    <2>8. doomed' = doomed \cup none /\ tracker' = tracker /\ none \subseteq DOMAIN posts
      BY <2>2, <2>7
    <2>9. \A e \in none : e[2] \in DOMAIN posts
      BY <2>7
    <2> QED BY <1>1, <1>3, <2>4, <2>5, <2>6, <2>8, <2>9, PostGoes
  <1>5. CASE ~SpamCounts(i) /\ ~Answers(i) /\ ~AnswerFails(i)
    <2>1. /\ posts' = [posts EXCEPT ![i] = go] /\ UNCHANGED <<cache, tracker>>
          /\ doomed' \in {doomed, doomed \cup {i}}
      BY <1>2, <1>5 DEF LinkDeletes, SpamWarns, PornJudges, WordActs, Deletes, Passes, Quiet, History
    <2>2. PICK D : D \in {{}, {i}} /\ doomed' = doomed \cup D
      BY <2>1
    <2>3. D \subseteq DOMAIN posts
      BY <2>2
    <2>4. PICK none : none = {}
      OBVIOUS
    <2>5. \A e \in none : e[2] \in DOMAIN posts
      BY <2>4
    <2>6. cache' = cache /\ tracker' = tracker /\ posts' = [posts EXCEPT ![i] = go]
      BY <2>1
    <2> QED BY <1>1, <1>2, <1>3, <2>2, <2>3, <2>5, <2>6, PostGoes
  <1>6. CASE SpamCounts(i)
    <2> DEFINE p == posts[i]
    <2>0. PICK w \in Windows(p.from, i) :
            /\ tracker' = [tracker EXCEPT ![p.from] = {e \in w : e[2] \notin Doom(w, p.text)}]
            /\ posts' = [posts EXCEPT ![i] = IF Doom(w, p.text) = {} THEN Onward(@, @.stage + 1)
                            ELSE [@ EXCEPT !.at = "deletes", !.since = now, !.doom = Doom(w, p.text)]]
            /\ doomed' = doomed \cup Doom(w, p.text)
      BY <1>6 DEF SpamCounts
    <2>1. \A e \in w : e[2] \in DOMAIN posts
      BY <1>1, WindowHolds DEF InWindow, GroupTInv
    <2>2. Doom(w, p.text) \subseteq Ids(w)
      BY DEF Doom, Ids, Said
    <2>3. PICK doom : /\ doom \subseteq Ids(w)
                      /\ tracker' = [tracker EXCEPT ![p.from] = {e \in w : e[2] \notin doom}]
                      /\ posts' = [posts EXCEPT ![i] = IF doom = {} THEN Onward(@, @.stage + 1)
                                     ELSE [@ EXCEPT !.at = "deletes", !.since = now, !.doom = doom]]
                      /\ doomed' = doomed \cup doom
      BY <2>0, <2>2
    <2>4. doom \subseteq DOMAIN posts
      BY <2>1, <2>3 DEF Ids
    <2>5. PICK rest : rest = {e \in w : e[2] \notin doom}
      OBVIOUS
    <2>6. tracker' = [tracker EXCEPT ![p.from] = rest] /\ \A e \in rest : e[2] \in DOMAIN posts
      BY <2>1, <2>3, <2>5
    <2>7. PICK s : s = [p EXCEPT !.at = "deletes", !.since = now, !.doom = doom]
      OBVIOUS
    <2>8. PICK q : q = IF doom = {} THEN go ELSE s
      OBVIOUS
    <2>9. posts' = [posts EXCEPT ![i] = q]
      BY <1>2, <2>3, <2>7, <2>8
    <2>10. OnItsWay(q)
      <3>1. p.at = "acts" /\ OnItsWay(p)
        BY <1>6 DEF SpamCounts, At, GroupTInv
      <3>2. s.at = "deletes" /\ s.stage = p.stage
        BY <1>1, <2>7 DEF IsPost
      <3> HIDE DEF p
      <3> QED BY <1>2, <2>8, <3>1, <3>2 DEF OnItsWay
    <2>11. UNCHANGED cache
      BY <1>6 DEF SpamCounts, Quiet
    <2>12. doomed' = doomed \cup doom
      BY <2>3
    <2>13. PICK from : from = p.from /\ from \in Member
      BY <1>1
    <2>14. tracker' = tracker \/ tracker' = [tracker EXCEPT ![from] = rest]
      BY <2>6, <2>13
    <2>15. cache' = cache \/ \E e : cache' = [cache EXCEPT ![from] = {e}]
      BY <2>11
    <2>16. \A e \in rest : e[2] \in DOMAIN posts
      BY <2>6
    <2> HIDE DEF p
    <2> QED BY <1>3, <2>4, <2>9, <2>10, <2>12, <2>13, <2>14, <2>15, <2>16, PostGoes
  <1> QED BY <1>4, <1>5, <1>6

LEMMA GroupTypesStep ==
    ASSUME GuardAssumption, GInv, GroupTInv, [GuardNext]_<<envVars, guardVars>>
    PROVE  GroupTInv'
  <1>0. DOMAIN warnRow = Member
    BY DEF GroupTInv
  <1>1. CASE \/ \E m \in Member : Joins(m) \/ Welcomes(m) \/ Promote(m)
             \/ \E b \in BOOLEAN : SwitchWelcome(b)
             \/ \E n \in Nat : TagAll(n)
             \/ TagBatch \/ GuardTick \/ UNCHANGED <<envVars, guardVars>>
    <2>1. UNCHANGED <<filtering, cache, posts, tracker, warnRow, doomed>>
      BY <1>1 DEF Joins, Welcomes, Promote, SwitchWelcome, TagAll, TagBatch, GuardTick, guardVars,
             Others, History
    <2> QED BY <2>1 DEF GroupTInv, OnItsWay, OneAtMost
  <1>2. ASSUME NEW f \in Filter, SwitchFilter(f)
        PROVE  GroupTInv'
    <2>1. UNCHANGED <<cache, posts, tracker, warnRow, doomed>> /\ filtering' \subseteq Filter
      BY <1>2 DEF SwitchFilter, Others, History, GroupTInv
    <2> QED BY <2>1 DEF GroupTInv, OnItsWay, OneAtMost
  <1>3. ASSUME NEW m \in Member, AddWarn(m) \/ RemoveWarn(m) \/ ClearWarns(m)
        PROVE  GroupTInv'
    <2>1. UNCHANGED <<filtering, cache, posts, tracker, doomed>>
      BY <1>3 DEF AddWarn, RemoveWarn, ClearWarns, Others, History
    <2>2. PICK rows : warnRow' = [warnRow EXCEPT ![m] = rows] /\ (rows = warnRow[m] \/ \E n : rows = {n})
      BY <1>3 DEF AddWarn, RemoveWarn, ClearWarns
    <2>3. DOMAIN warnRow' = Member /\ \A n \in Member : OneAtMost(warnRow'[n])
      BY <1>0, <2>2 DEF GroupTInv, OneAtMost
    <2> QED BY <2>1, <2>3 DEF GroupTInv, OnItsWay, OneAtMost
  <1>4. ASSUME NEW m \in Member, NEW t \in Text, Arrives(m, t)
        PROVE  GroupTInv'
    <2>1. PICK p : p = [from |-> m, text |-> t, stage |-> 0, at |-> "new", since |-> now, doom |-> {}]
      OBVIOUS
    <2>2. IsPost(p)
      BY <2>1 DEF IsPost, GInv, Underway
    <2>3. PICK q : q = Onward(p, 1) /\ OnItsWay(q)
      BY <2>2, OnwardGoes
    <2>4. posts' = Append(posts, q) /\ UNCHANGED <<filtering, cache, tracker, warnRow, doomed>>
      BY <1>4, <2>1, <2>3 DEF Arrives, History
    <2> DEFINE W == {posts[i] : i \in DOMAIN posts} \cup {q}
    <2>5. posts \in Seq(W) /\ q \in W
      BY SeqMonotonic DEF GInv, Underway, IsSeq
    <2> HIDE DEF W
    <2>6. /\ Len(posts') = Len(posts) + 1
          /\ \A i \in 1..Len(posts) : posts'[i] = posts[i]
          /\ posts'[Len(posts) + 1] = q
      BY <2>4, <2>5, AppendProperties
    <2>7. /\ Len(posts) \in Nat /\ DOMAIN posts = 1..Len(posts)
          /\ DOMAIN posts' = 1..(Len(posts) + 1)
      BY <2>4, <2>5, <2>6, AppendProperties
    <2>8. \A i \in DOMAIN posts' : OnItsWay(posts'[i])
      BY <2>3, <2>6, <2>7 DEF GroupTInv
    <2>9. DOMAIN posts \subseteq DOMAIN posts'
      BY <2>7
    <2> QED BY <2>4, <2>8, <2>9 DEF GroupTInv, OnItsWay, OneAtMost
  <1>5. CASE GuardCrash
    <2>1. /\ UNCHANGED <<filtering, warnRow, doomed>> /\ DOMAIN posts' = DOMAIN posts
          /\ cache' = [m \in Member |-> {}] /\ tracker' = [m \in Member |-> {}]
      BY <1>5 DEF GuardCrash
    <2>2. ASSUME NEW i \in DOMAIN posts
          PROVE  OnItsWay(posts'[i])
      <3>1. posts'[i] = [posts[i] EXCEPT !.stage = 5, !.at = "done", !.since = 0, !.doom = {}]
        <4>1. Len(Stages) + 1 = 5
          BY DEF Stages
        <4> QED BY <1>5, <4>1 DEF GuardCrash
      <3>2. posts'[i].stage = 5 /\ posts'[i].at = "done"
        BY <3>1 DEF GInv, Underway, IsPost
      <3> QED BY <3>2 DEF OnItsWay
    <2> QED BY <2>1, <2>2 DEF GroupTInv, OnItsWay, OneAtMost
  <1>6. CASE WatcherNext
    BY <1>6, WatcherTypes
  <1> QED BY <1>1, <1>2, <1>3, <1>4, <1>5, <1>6 DEF GuardNext, GroupNext

LEMMA GroupTypesHold == GroupTInv => GuardTypes
  <1> SUFFICES ASSUME GroupTInv PROVE GuardTypes
    OBVIOUS
  <1>1. Len(Stages) = 4
    BY DEF Stages
  <1>2. ASSUME NEW i \in DOMAIN posts
        PROVE  /\ posts[i].at \in {"asks", "acts", "deletes", "done"}
               /\ (posts[i].at = "done") = (posts[i].stage > Len(Stages))
    BY <1>1, <1>2 DEF GroupTInv, OnItsWay
  <1> QED BY <1>2, OneCounts DEF GroupTInv, GuardTypes

LEMMA GuardMoved == ASSUME GuardNext PROVE Moved
  <1>1. WatcherNext => Moved
    BY DEF WatcherNext, Answers, AnswerFails, LinkDeletes, SpamCounts, SpamWarns, PornJudges, WordActs, Moved
  <1>2. GroupNext => Moved
    BY DEF GroupNext, SwitchFilter, SwitchWelcome, TagAll, TagBatch, Joins, Welcomes, AddWarn,
           RemoveWarn, ClearWarns, Moved
  <1> QED BY <1>1, <1>2 DEF GuardNext, Promote, Arrives, GuardCrash, GuardTick, Moved

-----------------------------------------------------------------------------
\* Where a command can be, and what its message can show.
JobAt  == {"idle", "runs", "tells", "done", "lost"}
Shows  == {"asked", "busy", "usage", "result", "gone", "error"}
IsAJob(r) == r.at \in JobAt /\ r.status \in Shows

PackTInv == /\ \A w \in Worker : IsAJob(jobs[w])
            /\ pack \subseteq 1..orders

LEMMA PackInit == JobsInit => PackTInv
  BY DEF JobsInit, PackTInv, NoJob, IsAJob, JobAt, Shows

\* One command goes on.
LEMMA JobPut ==
    ASSUME JInv, PackTInv, NEW w \in Worker, NEW t, jobs' = [jobs EXCEPT ![w] = t], IsAJob(t),
           orders' \in {orders, orders + 1},
           pack' \in {pack, pack \cup {jobs[w].id}}, pack' # pack => jobs[w].id # 0
    PROVE  PackTInv'
  <1>1. \A v \in Worker : IsAJob(jobs'[v])
    BY DEF JInv, PackTInv
  <1>2. jobs[w].id \in Nat /\ jobs[w].id <= orders /\ orders \in Nat
    BY DEF JInv, JobInv, IsJob
  <1>3. pack' \subseteq 1..orders'
    <2>1. 1..orders \subseteq 1..orders'
      BY <1>2
    <2>2. pack \subseteq 1..orders'
      BY <2>1 DEF PackTInv
    <2>3. CASE pack' = pack
      BY <2>2, <2>3
    <2>4. CASE pack' # pack
      <3>1. jobs[w].id \in 1..orders'
        BY <1>2, <2>4
      <3> QED BY <2>2, <2>4, <3>1
    <2> QED BY <2>3, <2>4
  <1> QED BY <1>1, <1>3 DEF PackTInv, IsAJob

LEMMA OnwardsIsAJob ==
    ASSUME NEW r, DOMAIN r = JobFields, IsAJob(r)
    PROVE  IsAJob(Onwards(r))
  <1>1. PICK t : t = Onwards(r)
    OBVIOUS
  <1>2. t.status = r.status /\ t.at \in {"done", r.at}
    BY <1>1, OnwardsSteps
  <1> QED BY <1>1, <1>2 DEF IsAJob, JobAt

LEMMA FollowsIsAJob ==
    ASSUME NEW r, IsJob(r), IsAJob(r), NEW what, NEW way \in {"raise", "tell", "retell", "next"}
    PROVE  IsAJob(Follows(r, what, way))
  <1>1. PICK f : f = [r EXCEPT !.failed = @ \cup {what}]
    OBVIOUS
  <1>2. DOMAIN f = JobFields /\ f.at = r.at /\ f.status = r.status
    BY <1>1 DEF IsJob, JobFields
  <1>3. IsAJob(f)
    BY <1>2 DEF IsAJob
  <1>4. IsAJob(Onwards(f))
    BY <1>2, <1>3, OnwardsIsAJob
  <1>5. /\ way = "raise" => Follows(r, what, way) = [f EXCEPT !.at = "done", !.raised = TRUE]
        /\ way = "next" => Follows(r, what, way) = Onwards(f)
        /\ way = "tell" => Follows(r, what, way) = [f EXCEPT !.at = "tells"]
        /\ way = "retell" => Follows(r, what, way) = [f EXCEPT !.at = "tells", !.again = TRUE]
    BY <1>1 DEF Follows
  <1>6. /\ IsAJob([f EXCEPT !.at = "done", !.raised = TRUE])
        /\ IsAJob([f EXCEPT !.at = "tells"]) /\ IsAJob([f EXCEPT !.at = "tells", !.again = TRUE])
    BY <1>2, <1>3 DEF IsAJob, JobAt, JobFields
  <1> QED BY <1>4, <1>5, <1>6

LEMMA PackStep ==
    ASSUME JInv, PackTInv, [JobsNext]_<<envVars, jobsVars>>
    PROVE  PackTInv'
  <1>0. \A w \in Worker : IsJob(jobs[w]) /\ DOMAIN jobs[w] = JobFields /\ IsAJob(jobs[w])
    BY DEF JInv, JobInv, IsJob, PackTInv
  <1>1. ASSUME NEW w \in Worker, NEW c \in DOMAIN Plan, StartJob(w, c)
        PROVE  PackTInv'
    <2>1. PICK t : t = [NoJob EXCEPT !.plan = c, !.id = orders + 1, !.at = "runs"]
      OBVIOUS
    <2>2. IsAJob(t)
      BY <2>1 DEF NoJob, IsAJob, JobAt, Shows
    <2>3. jobs' = [jobs EXCEPT ![w] = t] /\ orders' = orders + 1 /\ pack' = pack
      BY <1>1, <2>1 DEF StartJob, Set, Ordered
    <2> QED BY <2>2, <2>3, JobPut
  <1>2. ASSUME NEW w \in Worker, ShowsUsage(w)
        PROVE  PackTInv'
    <2>1. PICK t : t = [jobs[w] EXCEPT !.at = "done", !.status = "usage"]
      OBVIOUS
    <2>2. IsAJob(t)
      BY <1>0, <2>1 DEF IsAJob, JobAt, Shows, JobFields
    <2>3. jobs' = [jobs EXCEPT ![w] = t] /\ orders' = orders /\ pack' = pack
      BY <1>2, <2>1 DEF ShowsUsage, Set, Calm, envVars
    <2> QED BY <2>2, <2>3, JobPut
  <1>3. ASSUME NEW w \in Worker, StepDone(w)
        PROVE  PackTInv'
    <2>1. PICK r : r = jobs[w]
      OBVIOUS
    <2>2. PICK what : what = Now(w).do
      OBVIOUS
    <2>3. PICK b : b = IF what = "look" THEN pack # {} ELSE r.sees
      OBVIOUS
    <2>4. PICK u : u = [r EXCEPT !.status = Status(@, what), !.did = @ \cup {r.step}, !.sees = b]
      OBVIOUS
    <2>5. DOMAIN u = JobFields /\ u.at = r.at /\ u.status = Status(r.status, what)
      BY <1>0, <2>1, <2>4 DEF JobFields
    <2>6. Status(r.status, what) \in Shows
      BY <1>0, <2>1 DEF Status, Shows, IsAJob
    <2>7. IsAJob(Onwards(u))
      BY <1>0, <2>1, <2>5, <2>6, OnwardsIsAJob DEF IsAJob
    <2>8. /\ jobs' = [jobs EXCEPT ![w] = Onwards(u)] /\ orders' = orders
          /\ pack' \in {pack, pack \cup {jobs[w].id}}
      BY <1>3, <2>1, <2>2, <2>3, <2>4 DEF StepDone, Lands, Set, Calm, envVars
    <2>9. jobs[w].id # 0
      BY <1>3, JobRuns DEF StepDone
    <2> QED BY <2>7, <2>8, <2>9, JobPut
  <1>4. ASSUME NEW w \in Worker, PackTaken(w) \/ \E landed \in BOOLEAN : StepFails(w, landed)
        PROVE  PackTInv'
    <2>1. Running(w)
      BY <1>4 DEF StepFails, PackTaken
    <2>2. PICK what, u, way :
            /\ u = jobs[w] \/ u = [jobs[w] EXCEPT !.status = Status(@, what)]
            /\ way \in Now(w).else \/ way = "tell"
            /\ Set(w, Follows(u, what, way))
      BY <1>4 DEF StepFails, PackTaken
    <2>3. way \in {"raise", "tell", "retell", "next"}
      <3>1. Sound(Plan[jobs[w].plan]) /\ jobs[w].step \in 1..Len(Plan[jobs[w].plan])
        BY <2>1, JobRuns
      <3> QED BY <2>2, <3>1 DEF Sound, Now
    <2>4. IsJob(u) /\ IsAJob(u)
      <3>1. Status(jobs[w].status, what) \in Shows
        BY <1>0 DEF Status, Shows, IsAJob
      <3>2. CASE u = [jobs[w] EXCEPT !.status = Status(@, what)]
        <4>1. /\ DOMAIN u = JobFields /\ u.plan = jobs[w].plan /\ u.id = jobs[w].id /\ u.step = jobs[w].step
              /\ u.at = jobs[w].at /\ u.status = Status(jobs[w].status, what)
          BY <1>0, <3>2 DEF JobFields
        <4> QED BY <1>0, <3>1, <4>1 DEF IsJob, IsAJob
      <3> QED BY <1>0, <2>2, <3>2
    <2>5. IsAJob(Follows(u, what, way))
      BY <2>3, <2>4, FollowsIsAJob
    <2>6. jobs' = [jobs EXCEPT ![w] = Follows(u, what, way)] /\ orders' = orders
      BY <1>4, <2>2 DEF StepFails, PackTaken, Set, Calm, Fault, envVars
    <2>7. pack' \in {pack, pack \cup {jobs[w].id}}
      BY <1>4 DEF StepFails, PackTaken, Lands
    <2>8. jobs[w].id # 0
      BY <2>1, JobRuns
    <2> QED BY <2>5, <2>6, <2>7, <2>8, JobPut
  <1>5. ASSUME NEW w \in Worker, TellsError(w) \/ \E landed \in BOOLEAN : TellFails(w, landed)
        PROVE  PackTInv'
    <2>1. UNCHANGED <<orders, pack>>
      BY <1>5 DEF TellsError, TellFails, Calm, Fault, envVars
    <2>2. PICK t : jobs' = [jobs EXCEPT ![w] = t] /\ IsAJob(t)
      <3>1. CASE TellsError(w)
        <4>1. PICK s : s = IF jobs[w].status = "gone" THEN jobs[w].status ELSE "error"
          OBVIOUS
        <4>2. PICK b : b = (jobs[w].status = "gone")
          OBVIOUS
        <4>3. PICK t : t = [jobs[w] EXCEPT !.at = "done", !.status = s, !.raised = b]
          OBVIOUS
        <4>4. t.at = "done" /\ t.status = s
          BY <1>0, <4>3 DEF JobFields
        <4>5. IsAJob(t)
          BY <4>1, <4>4 DEF IsAJob, JobAt, Shows
        <4>6. t = [ErrorShown(jobs[w]) EXCEPT !.at = "done", !.raised = b]
          BY <1>0, <4>1, <4>3 DEF ErrorShown, JobFields
        <4>7. jobs' = [jobs EXCEPT ![w] = t]
          BY <3>1, <4>2, <4>6 DEF TellsError, Set
        <4> QED BY <4>5, <4>7
      <3>2. CASE \E landed \in BOOLEAN : TellFails(w, landed)
        <4>1. PICK q : /\ q = jobs[w] \/ q = ErrorShown(jobs[w])
                       /\ \/ jobs' = [jobs EXCEPT ![w] = [q EXCEPT !.again = FALSE]]
                          \/ jobs' = [jobs EXCEPT ![w] = [q EXCEPT !.at = "done", !.raised = TRUE]]
          BY <3>2 DEF TellFails, Set
        <4>2. DOMAIN q = JobFields /\ q.at = jobs[w].at /\ q.status \in {jobs[w].status, "error"}
          BY <1>0, <4>1 DEF ErrorShown, JobFields
        <4>3. q.at \in JobAt /\ q.status \in Shows
          BY <1>0, <4>2 DEF IsAJob, Shows
        <4>4. /\ IsAJob([q EXCEPT !.again = FALSE])
              /\ IsAJob([q EXCEPT !.at = "done", !.raised = TRUE])
          BY <4>2, <4>3 DEF IsAJob, JobAt, JobFields
        <4> QED BY <4>1, <4>4
      <3> QED BY <1>5, <3>1, <3>2
    <2> QED BY <2>1, <2>2, JobPut
  <1>6. CASE JobsCrash
    <2>1. UNCHANGED <<orders, pack>>
      BY <1>6 DEF JobsCrash, Fault
    <2>2. ASSUME NEW w \in Worker
          PROVE  IsAJob(jobs'[w])
      <3>1. jobs'[w] \in {jobs[w], [jobs[w] EXCEPT !.at = "lost"]}
        BY <1>6 DEF JobsCrash
      <3>2. IsAJob([jobs[w] EXCEPT !.at = "lost"])
        BY <1>0 DEF IsAJob, JobAt, JobFields
      <3> QED BY <1>0, <3>1, <3>2
    <2> QED BY <2>1, <2>2 DEF PackTInv, IsAJob
  <1>7. CASE UNCHANGED <<envVars, jobsVars>>
    BY <1>7 DEF envVars, jobsVars, PackTInv, IsAJob
  <1> QED BY <1>1, <1>2, <1>3, <1>4, <1>5, <1>6, <1>7 DEF JobsNext

LEMMA PackHolds == ASSUME EnvironmentAssumption, EnvTypeOK, JInv, PackTInv PROVE JobsTypes
  <1>1. orders \in Nat /\ MaxOrders \in Nat /\ orders <= MaxOrders
    BY DEF EnvironmentAssumption, EnvTypeOK
  <1>2. pack \subseteq 1..MaxOrders /\ copies \subseteq 1..MaxOrders
    BY <1>1 DEF JInv, PackTInv
  <1>3. ASSUME NEW w \in Worker
        PROVE  jobs[w].step \in DOMAIN Plan[jobs[w].plan]
    <2>1. IsJob(jobs[w])
      BY DEF JInv, JobInv
    <2> QED BY <2>1, PlansAreSound DEF IsJob, Sound
  <1> QED BY <1>2, <1>3 DEF PackTInv, IsAJob, JobAt, Shows, JobsTypes

LEMMA JobsMoved == ASSUME JobsNext PROVE Moved
  BY DEF JobsNext, StartJob, ShowsUsage, StepDone, Lands, StepFails, PackTaken, TellsError, TellFails,
         JobsCrash, Moved

-----------------------------------------------------------------------------
\* A chat has one game, and a command that has thrown had an attempt left.
OneEach(S) == \A g, h \in S : g.chat = h.chat => g = h

HasAttempts(r) == r.left \in 0..Throws /\ (r.at \in {"read", "drop"} => r.left > 0)

PlayTInv == OneEach(guesses) /\ \A p \in Player : HasAttempts(playing[p])

LEMMA PlayInit == GamesAssumption /\ GamesInit => PlayTInv
  BY DEF GamesAssumption, GamesInit, PlayTInv, OneEach, HasAttempts, AtRest

\* The games that stay, one of them begun anew or tried once more, or one added.
LEMMA OneEachStays ==
    ASSUME GuessInv, PlayTInv, NEW c \in Chat,
           StartGuess(c) \/ CancelGuess(c) \/ \E how \in {"right", "wrong", "outside"} : Guess(c, how)
    PROVE  OneEach(guesses') /\ playing' = playing
  <1>0. OneEach(guesses) /\ guesses \subseteq Game
    BY DEF PlayTInv, GuessInv, GuessTable
  <1>1. playing' = playing
    BY DEF StartGuess, CancelGuess, Guess, NotGuessing
  <1>2. CASE StartGuess(c)
    <2>1. Room \subseteq guesses /\ guesses' = Begin(Room, c)
      BY <1>2 DEF StartGuess, Room
    <2>2. CASE \E g \in Room : g.chat = c
      <3>1. guesses' = {IF g.chat = c THEN [g EXCEPT !.tries = 0] ELSE g : g \in Room}
        BY <2>1, <2>2 DEF Begin
      <3>2. \A g \in Room : [g EXCEPT !.tries = 0].chat = g.chat
        BY <1>0, <2>1 DEF Game
      <3>3. ASSUME NEW u \in guesses'
            PROVE  \E g \in Room : u.chat = g.chat /\ u = IF g.chat = c THEN [g EXCEPT !.tries = 0] ELSE g
        BY <3>1, <3>2
      <3> QED BY <1>0, <1>1, <2>1, <3>3 DEF OneEach
    <2>3. CASE ~\E g \in Room : g.chat = c
      <3>1. PICK n : n = [chat |-> c, tries |-> 0, born |-> orders + 1]
        OBVIOUS
      <3>2. guesses' = Room \cup {n} /\ n.chat = c
        BY <2>1, <2>3, <3>1 DEF Begin
      <3> QED BY <1>0, <1>1, <2>1, <2>3, <3>2 DEF OneEach
    <2> QED BY <2>2, <2>3
  <1>3. CASE CancelGuess(c)
    <2>1. guesses' \subseteq guesses
      BY <1>3 DEF CancelGuess
    <2> QED BY <1>0, <1>1, <2>1 DEF OneEach
  <1>4. ASSUME NEW how \in {"right", "wrong", "outside"}, Guess(c, how)
        PROVE  OneEach(guesses')
    <2>1. CASE how # "wrong"
      <3>1. guesses' \subseteq guesses
        BY <1>4, <2>1 DEF Guess
      <3> QED BY <1>0, <3>1 DEF OneEach
    <2>2. CASE how = "wrong"
      <3>1. guesses' = {IF g.chat = c THEN [g EXCEPT !.tries = @ + 1] ELSE g : g \in guesses}
        BY <1>4, <2>2 DEF Guess
      <3>2. \A g \in guesses : [g EXCEPT !.tries = @ + 1].chat = g.chat
        BY <1>0 DEF Game
      <3>3. ASSUME NEW u \in guesses'
            PROVE  \E g \in guesses : u.chat = g.chat
                                      /\ u = IF g.chat = c THEN [g EXCEPT !.tries = @ + 1] ELSE g
        BY <3>1, <3>2
      <3> QED BY <1>0, <3>3 DEF OneEach
    <2> QED BY <2>1, <2>2
  <1> QED BY <1>1, <1>2, <1>3, <1>4

\* A command goes on, begins or ends.
LEMMA PlayGoes ==
    ASSUME Players, PlayTInv, NEW p \in Player, NEW r, HasAttempts(r), Play(p, r), UNCHANGED guesses
    PROVE  PlayTInv'
  BY DEF Players, Play, PlayTInv, HasAttempts, OneEach

LEMMA PlayStep ==
    ASSUME GamesAssumption, GuessInv, QuizInv, PlayTInv, [GamesNext]_<<envVars, gamesVars>>
    PROVE  PlayTInv'
  <1>0. Players /\ Throws \in Nat /\ \A p \in Player : playing[p] \in QuizTurn /\ HasAttempts(playing[p])
    BY DEF QuizInv, Players, PlayTInv, GamesAssumption
  <1>1. HasAttempts(AtRest)
    BY <1>0 DEF AtRest, HasAttempts
  <1>2. ASSUME NEW c \in Chat, \/ StartGuess(c) \/ CancelGuess(c)
                               \/ \E how \in {"right", "wrong", "outside"} : Guess(c, how)
        PROVE  PlayTInv'
    BY <1>2, OneEachStays DEF PlayTInv, HasAttempts
  <1>3. ASSUME NEW c \in Chat, Answer(c)
        PROVE  PlayTInv'
    BY <1>3 DEF Answer, NotQuizzing, PlayTInv, HasAttempts, OneEach
  <1>4. ASSUME NEW p \in Player, NEW c \in Chat, AskQuiz(p, c)
        PROVE  PlayTInv'
    <2>1. PICK r : r = [at |-> "fetch", id |-> orders + 1, chat |-> c, left |-> 0]
      OBVIOUS
    <2>2. HasAttempts(r)
      BY <1>0, <2>1 DEF HasAttempts
    <2>3. Play(p, r) /\ UNCHANGED guesses
      BY <1>4, <2>1 DEF AskQuiz, NotQuizzing
    <2> QED BY <1>0, <2>2, <2>3, PlayGoes
  <1>5. ASSUME NEW p \in Player, AskDie(p)
        PROVE  PlayTInv'
    <2>1. PICK r : r = [at |-> "throw", id |-> orders + 1, chat |-> "none", left |-> Throws]
      OBVIOUS
    <2>2. HasAttempts(r)
      BY <1>0, <2>1 DEF HasAttempts
    <2>3. Play(p, r) /\ UNCHANGED guesses
      BY <1>5, <2>1 DEF AskDie, NotThrowing
    <2> QED BY <1>0, <2>2, <2>3, PlayGoes
  <1>6. ASSUME NEW p \in Player, \/ QuizFails(p) \/ QuizShown(p) \/ QuizNotShown(p) \/ DieGivenUp(p)
        PROVE  PlayTInv'
    <2>1. Play(p, AtRest) /\ UNCHANGED guesses
      BY <1>6 DEF QuizFails, QuizShown, QuizNotShown, DieGivenUp, NotQuizzing, NotThrowing
    <2> QED BY <1>0, <1>1, <2>1, PlayGoes
  <1>7. ASSUME NEW p \in Player, NEW at, NEW r, r = [playing[p] EXCEPT !.at = at],
               at \in {"translate", "show"} \/ (at \in {"read", "drop"} /\ playing[p].left > 0)
        PROVE  HasAttempts(r)
    <2>1. r.at = at /\ r.left = playing[p].left
      BY <1>0, <1>7 DEF QuizTurn
    <2> QED BY <1>0, <1>7, <2>1 DEF HasAttempts
  <1>8. ASSUME NEW p \in Player, QuizFetched(p) \/ QuizStored(p)
        PROVE  PlayTInv'
    <2>1. PICK at \in {"translate", "show"} : Play(p, [playing[p] EXCEPT !.at = at])
      BY <1>8 DEF QuizFetched, QuizStored
    <2>2. UNCHANGED guesses
      BY <1>8 DEF QuizFetched, QuizStored, NotQuizzing
    <2> QED BY <1>0, <1>7, <2>1, <2>2, PlayGoes
  <1>9. ASSUME NEW p \in Player, playing[p].left > 0
        PROVE  HasAttempts(Attempt(playing[p]))
    <2>1. playing[p].left \in 0..Throws
      BY <1>0 DEF HasAttempts
    <2>2. playing[p].left - 1 \in 0..Throws
      BY <1>0, <1>9, <2>1
    <2> QED BY <2>2 DEF HasAttempts, Attempt
  <1>10. ASSUME NEW p \in Player, NEW b \in BOOLEAN,
                \/ ThrowLands(p, b) \/ ThrowFails(p, b) \/ ThrowRead(p) \/ DieDropped(p) \/ DieStays(p)
         PROVE  PlayTInv'
    <2>1. playing[p].left > 0
      BY <1>0, <1>10 DEF ThrowLands, ThrowFails, ThrowRead, DieDropped, DieStays, HasAttempts
    <2>2. UNCHANGED guesses
      BY <1>10 DEF ThrowLands, ThrowFails, ThrowRead, DieDropped, DieStays, NotThrowing
    <2>3. PICK r : /\ Play(p, r)
                   /\ \/ r = AtRest \/ r = Attempt(playing[p])
                      \/ \E at \in {"read", "drop"} : r = [playing[p] EXCEPT !.at = at]
      BY <1>10 DEF ThrowLands, ThrowFails, ThrowRead, DieDropped, DieStays
    <2>4. HasAttempts(r)
      BY <1>1, <1>7, <1>9, <2>1, <2>3
    <2> QED BY <1>0, <2>2, <2>3, <2>4, PlayGoes
  <1>11. CASE GamesCrash
    BY <1>1, <1>11 DEF GamesCrash, PlayTInv, OneEach, HasAttempts
  <1>12. CASE UNCHANGED <<envVars, gamesVars>>
    BY <1>12 DEF gamesVars, PlayTInv, OneEach, HasAttempts
  <1> QED BY <1>2, <1>3, <1>4, <1>5, <1>6, <1>8, <1>10, <1>11, <1>12 DEF GamesNext

LEMMA PlayHolds ==
    ASSUME EnvironmentAssumption, EnvTypeOK, QuizInv, PlayTInv
    PROVE  GamesTypes
  <1>1. orders \in Nat /\ MaxOrders \in Nat /\ orders <= MaxOrders
    BY DEF EnvironmentAssumption, EnvTypeOK
  <1>2. \A c \in Chat : quiz[c] \subseteq 1..MaxOrders
    BY <1>1 DEF QuizInv
  <1>3. \A p \in Player : /\ playing[p].at \in {"idle", "fetch", "translate", "show", "throw", "read", "drop"}
                          /\ playing[p].left \in 0..Throws
    BY DEF QuizInv, Players, QuizTurn, PlayTInv, HasAttempts
  <1> QED BY <1>2, <1>3 DEF PlayTInv, OneEach, GamesTypes

LEMMA GamesMoved == ASSUME GamesNext PROVE Moved
  <1>1. ASSUME NEW c \in Chat, \/ StartGuess(c) \/ CancelGuess(c) \/ Answer(c)
                               \/ \E how \in {"right", "wrong", "outside"} : Guess(c, how)
                               \/ \E p \in Player : AskQuiz(p, c)
        PROVE  Moved
    BY <1>1 DEF StartGuess, CancelGuess, Answer, Guess, AskQuiz, Moved
  <1>2. ASSUME NEW p \in Player, \/ QuizFetched(p) \/ QuizFails(p) \/ QuizStored(p)
                                 \/ QuizShown(p) \/ QuizNotShown(p) \/ AskDie(p)
                                 \/ \E b \in BOOLEAN : ThrowLands(p, b) \/ ThrowFails(p, b)
                                 \/ ThrowRead(p) \/ DieDropped(p) \/ DieStays(p) \/ DieGivenUp(p)
        PROVE  Moved
    BY <1>2 DEF QuizFetched, QuizFails, QuizStored, QuizShown, QuizNotShown, AskDie, ThrowLands,
         ThrowFails, ThrowRead, DieDropped, DieStays, DieGivenUp, Moved
  <1> QED BY <1>1, <1>2 DEF GamesNext, GamesCrash, Moved

-----------------------------------------------------------------------------
\* The schema's invariant says it of the schema.
LEMMA SchemaTypesHold == SchemaInv => SchemaTypes
  <1> SUFFICES ASSUME SchemaInv PROVE SchemaTypes
    OBVIOUS
  <1>1. Head10 = 10
    BY DEF Head10, Ups
  <1>2. CASE migrating = <<>>
    <2>1. Range(migrating) = {} /\ Len(migrating) = 0
      BY <1>2, RangeOfOne
    <2> QED BY <1>1, <2>1 DEF SchemaInv, SchemaTypes
  <1>3. CASE \E m : migrating = <<m>> /\ InTransaction(m)
    <2>1. PICK m : migrating = <<m>> /\ InTransaction(m)
      BY <1>3
    <2>2. Range(migrating) = {m} /\ Len(migrating) = 1
      BY <2>1, RangeOfOne
    <2>3. m.at \in 0..10 /\ m.to \in 0..10
      BY <2>1 DEF InTransaction, IsPosition
    <2> QED BY <1>1, <2>2, <2>3 DEF SchemaInv, SchemaTypes
  <1> QED BY <1>2, <1>3 DEF SchemaInv

LEMMA SchemaMoved == ASSUME SchemaNext PROVE Moved
  BY DEF SchemaNext, StartUpgrade, StartDowngrade, Migrate, Commit, MigrationDies, Fills, Ends, Moved

-----------------------------------------------------------------------------
(* The handlers together.                                                  *)

\* Each part keeps its invariant while it is the one that runs.
HandlersInv ==
    /\ EnvTypeOK
    /\ part = "plugins" => PInv /\ EntryTInv
    /\ part = "guard" => GInv /\ GroupTInv
    /\ part = "rules" => RInv /\ InboxTInv
    /\ part = "tables" => TInv /\ RowsTInv
    /\ part = "schema" => SchemaInv
    /\ part = "jobs" => JInv /\ PackTInv
    /\ part = "games" => GuessInv /\ QuizInv /\ PlayTInv

\* A step of the composition is one of the part that runs.
LEMMA TurnsAreSteps ==
    /\ PluginsTurn => part = "plugins" /\ part' = part /\ PluginsNext
    /\ GuardTurn => part = "guard" /\ part' = part /\ GuardNext
    /\ RulesTurn => part = "rules" /\ part' = part /\ RulesNext
    /\ TablesTurn => part = "tables" /\ part' = part /\ TablesNext
    /\ SchemaTurn => part = "schema" /\ part' = part /\ SchemaNext
    /\ JobsTurn => part = "jobs" /\ part' = part /\ JobsNext
    /\ GamesTurn => part = "games" /\ part' = part /\ GamesNext
  <1>1. PluginsTurn => part = "plugins" /\ part' = part /\ PluginsNext
    BY DEF PluginsTurn, InPlugins, Only, PluginsNext
  <1>2. GuardTurn => part = "guard" /\ part' = part /\ GuardNext
    <2>1. Kinds \subseteq Text /\ {"spam", "link"} \subseteq Filter /\ 1 \in Nat /\ FALSE \in BOOLEAN
      BY DEF Kinds, Text, Worded, Filter
    <2> QED BY <2>1 DEF GuardTurn, InGuard, Only, GuardNext, WatcherNext, GroupNext
  <1>3. RulesTurn => part = "rules" /\ part' = part /\ RulesNext
    <2>1. Shapes \subseteq Shape
      BY DEF Shapes, Shape, Trigger, Act
    <2> QED BY <2>1 DEF RulesTurn, InRules, Only, RulesNext
  <1>4. TablesTurn => part = "tables" /\ part' = part /\ TablesNext
    <2>1. \A l \in Label : {l} \in SUBSET Label
      OBVIOUS
    <2> QED BY <2>1 DEF TablesTurn, InTables, Only, TablesNext
  <1>5. SchemaTurn => part = "schema" /\ part' = part /\ SchemaNext
    <2>1. {0, 3, 6, 8} \subseteq 0..Head10
      <3>1. Head10 = 10
        BY DEF Head10, Ups
      <3> QED BY <3>1
    <2>2. \A t : Fills(t) => t \in DOMAIN schema
      BY DEF Fills
    <2> QED BY <2>1, <2>2 DEF SchemaTurn, InSchema, Only, SchemaNext
  <1>6. JobsTurn => part = "jobs" /\ part' = part /\ JobsNext
    BY DEF JobsTurn, InJobs, Only, JobsNext
  <1>7. GamesTurn => part = "games" /\ part' = part /\ GamesNext
    BY DEF GamesTurn, InGames, Only, GamesNext
  <1> QED BY <1>1, <1>2, <1>3, <1>4, <1>5, <1>6, <1>7

\* Each part starts in its invariant.
LEMMA HandlersInitInv == ASSUME HandlersInit PROVE HandlersInv
  <1>0. GuardAssumption /\ EnvironmentAssumption /\ GamesAssumption
    BY HandlersAssumption, GamesAssumption DEF GuardAssumption
  <1>1. EnvInit /\ EnvTypeOK
    BY <1>0, EnvAtFirst DEF HandlersInit
  <1>2. part = "plugins" => PInv /\ EntryTInv
    BY PluginsInitInv, EntryInit DEF HandlersInit, PluginsStart
  <1>3. part = "guard" => GInv /\ GroupTInv
    BY <1>0, <1>1, GuardInitInv, GroupTypesInit DEF HandlersInit, GuardStart
  <1>4. part = "rules" => RInv /\ InboxTInv
    BY RulesInitInv, InboxInit DEF HandlersInit, RulesStart
  <1>5. part = "tables" => TInv /\ RowsTInv
    BY TablesInitInv, RowsInit DEF HandlersInit
  <1>6. part = "schema" => SchemaInv
    BY <1>1, SchemaInitInv DEF HandlersInit, SchemaStart
  <1>7. part = "jobs" => JInv /\ PackTInv
    BY <1>1, JobsInitInv, PackInit DEF HandlersInit
  <1>8. part = "games" => GuessInv /\ QuizInv /\ PlayTInv
    BY <1>0, <1>1, GamesInitInv, PlayInit DEF HandlersInit
  <1> QED BY <1>1, <1>2, <1>3, <1>4, <1>5, <1>6, <1>7, <1>8 DEF HandlersInv

\* A step of the part that runs keeps its invariant.
LEMMA HandlersTurnInv == ASSUME HandlersInv, HandlersNext PROVE HandlersInv'
  <1>0. GuardAssumption /\ EnvironmentAssumption /\ GamesAssumption
    BY HandlersAssumption, GamesAssumption DEF GuardAssumption
  <1>1. CASE PluginsTurn
    <2>1. part = "plugins" /\ part' = part /\ PluginsNext
      BY <1>1, TurnsAreSteps
    <2>2. PInv' /\ EntryTInv' /\ EnvTypeOK'
      BY <1>0, <2>1, PluginsStepInv, EntryStep, PluginsMoved, EnvKept DEF HandlersInv
    <2> QED BY <2>1, <2>2 DEF HandlersInv
  <1>2. CASE GuardTurn
    <2>1. part = "guard" /\ part' = part /\ GuardNext
      BY <1>2, TurnsAreSteps
    <2>2. GInv' /\ GroupTInv' /\ EnvTypeOK'
      BY <1>0, <2>1, GuardStepInv, GroupTypesStep, GuardMoved, EnvKept DEF HandlersInv
    <2> QED BY <2>1, <2>2 DEF HandlersInv
  <1>3. CASE RulesTurn
    <2>1. part = "rules" /\ part' = part /\ RulesNext
      BY <1>3, TurnsAreSteps
    <2>2. RInv' /\ InboxTInv' /\ EnvTypeOK'
      BY <1>0, <2>1, RulesStepInv, InboxStep, RulesMoved, EnvKept DEF HandlersInv
    <2> QED BY <2>1, <2>2 DEF HandlersInv
  <1>4. CASE TablesTurn
    <2>1. part = "tables" /\ part' = part /\ TablesNext
      BY <1>4, TurnsAreSteps
    <2>2. TInv' /\ RowsTInv' /\ EnvTypeOK'
      BY <1>0, <2>1, TablesStepInv, RowsStep, TablesMoved, EnvKept DEF HandlersInv
    <2> QED BY <2>1, <2>2 DEF HandlersInv
  <1>5. CASE SchemaTurn
    <2>1. part = "schema" /\ part' = part /\ SchemaNext
      BY <1>5, TurnsAreSteps
    <2>2. SchemaInv' /\ EnvTypeOK'
      BY <1>0, <2>1, SchemaStepInv, SchemaMoved, EnvKept DEF HandlersInv
    <2> QED BY <2>1, <2>2 DEF HandlersInv
  <1>6. CASE JobsTurn
    <2>1. part = "jobs" /\ part' = part /\ JobsNext
      BY <1>6, TurnsAreSteps
    <2>2. JInv' /\ PackTInv' /\ EnvTypeOK'
      BY <1>0, <2>1, JobsStep, PackStep, JobsMoved, EnvKept DEF HandlersInv
    <2> QED BY <2>1, <2>2 DEF HandlersInv
  <1>7. CASE GamesTurn
    <2>1. part = "games" /\ part' = part /\ GamesNext
      BY <1>7, TurnsAreSteps
    <2>2. GuessInv' /\ QuizInv' /\ PlayTInv' /\ EnvTypeOK'
      BY <1>0, <2>1, GuessStep, QuizStep, PlayStep, GamesMoved, EnvKept DEF HandlersInv
    <2> QED BY <2>1, <2>2 DEF HandlersInv
  <1> QED BY <1>1, <1>2, <1>3, <1>4, <1>5, <1>6, <1>7 DEF HandlersNext

\* ... and so does a step of nobody.
LEMMA HandlersStutterInv ==
    ASSUME HandlersInv, UNCHANGED <<part, envVars, pluginVars, guardVars, rulesVars,
                                    tablesVars, schemaVars, jobsVars, gamesVars>>
    PROVE  HandlersInv'
  <1>0. GuardAssumption /\ EnvironmentAssumption /\ GamesAssumption
    BY HandlersAssumption, GamesAssumption DEF GuardAssumption
  <1>1. part' = part /\ EnvTypeOK'
    BY DEF HandlersInv, EnvTypeOK, envVars
  <1>2. part = "plugins" => PInv' /\ EntryTInv'
    BY PluginsStepInv, EntryStep DEF HandlersInv
  <1>3. part = "guard" => GInv' /\ GroupTInv'
    BY <1>0, GuardStepInv, GroupTypesStep DEF HandlersInv
  <1>4. part = "rules" => RInv' /\ InboxTInv'
    BY RulesStepInv, InboxStep DEF HandlersInv
  <1>5. part = "tables" => TInv' /\ RowsTInv'
    BY TablesStepInv, RowsStep DEF HandlersInv
  <1>6. part = "schema" => SchemaInv'
    BY SchemaStepInv DEF HandlersInv
  <1>7. part = "jobs" => JInv' /\ PackTInv'
    BY JobsStep, PackStep DEF HandlersInv
  <1>8. part = "games" => GuessInv' /\ QuizInv' /\ PlayTInv'
    BY <1>0, GuessStep, QuizStep, PlayStep DEF HandlersInv
  <1> QED BY <1>1, <1>2, <1>3, <1>4, <1>5, <1>6, <1>7, <1>8 DEF HandlersInv

\* Whatever part runs, and whatever it does and meets, every variable of it keeps
\* its kind of value, and what of it is tied to the rest: a command that unloads
\* has an entry to unload, a message with rules left is under way, a table keeps
\* one row, a chat one game.
THEOREM HandlersKeepTypes == HandlersSpec => []HandlersTypes
  <1>1. HandlersInv => HandlersTypes
    <2> SUFFICES ASSUME HandlersInv PROVE HandlersTypes
      OBVIOUS
    <2>1. EnvironmentAssumption
      BY HandlersAssumption DEF GuardAssumption
    <2>2. /\ part = "plugins" => PluginsTypes
          /\ part = "guard" => GuardTypes
          /\ part = "rules" => RulesTypes
          /\ part = "tables" => TablesTypes
      BY EntryHolds, GroupTypesHold, InboxHolds, RowsHold DEF HandlersInv
    <2>3. /\ part = "schema" => SchemaTypes
          /\ part = "jobs" => JobsTypes
          /\ part = "games" => GamesTypes
      BY <2>1, SchemaTypesHold, PackHolds, PlayHolds DEF HandlersInv
    <2> QED BY <2>2, <2>3 DEF HandlersInv, HandlersTypes
  <1> QED BY <1>1, HandlersInitInv, HandlersTurnInv, HandlersStutterInv, PTL DEF HandlersSpec

===============================================================================
