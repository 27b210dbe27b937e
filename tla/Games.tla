---------------------------------- MODULE Games --------------------------------
(***************************************************************************)
(* The games with a memory (bot/handlers/fun.py): guessing a number, the   *)
(* quiz, and the die that is thrown until it shows what was asked for.     *)
(* The dictionaries live in memory only, one game of each kind per chat;   *)
(* a guess and an answer are judged without an await, a question is        *)
(* fetched, translated and stored with awaits in between, and so are the   *)
(* throws.  What a die shows is whether it is the number asked for.        *)
(***************************************************************************)
EXTENDS Environment

CONSTANTS Chat,
          Player,    \* tasks of .quiz and .dice commands
          MaxGames,  \* _MAX_GAMES
          Throws     \* DICE_MAX_ATTEMPTS

ASSUME GamesAssumption == MaxGames \in Nat /\ MaxGames >= 2 /\ Throws \in Nat

VARIABLES
    guesses,   \* GUESS_GAMES: chat, tries, and when its key was added (born)
    quiz,      \* QUIZ_GAMES: chat -> {} or {question}
    score,     \* QUIZ_SCORES: chat -> total
    playing,   \* player -> its command: a quiz being fetched, or a die being thrown
    dice,      \* dice in the chat: <<command, throw, as asked for>>
    \* -- history, read by properties only
    shown,     \* questions that are on the screen
    judged,    \* <<question, whether it was shown, chat>>, as answers were judged
    unshown,   \* questions whose last edit failed
    strays,    \* dice whose reading or deletion failed
    evicted    \* <<game, games then in the table that were added after it>>

gamesVars == <<guesses, quiz, score, playing, dice, shown, judged, unshown, strays, evicted>>

AtRest == [at |-> "idle", id |-> 0, chat |-> "none", left |-> 0]

GamesInit ==
    /\ guesses = {} /\ evicted = {}
    /\ quiz = [c \in Chat |-> {}] /\ score = [c \in Chat |-> 0]
    /\ playing = [p \in Player |-> AtRest]
    /\ dice = {} /\ shown = {} /\ judged = {}
    /\ unshown = {} /\ strays = {}

-----------------------------------------------------------------------------
(* Guessing: everything happens before the one edit.                       *)

NotGuessing == UNCHANGED <<quiz, score, playing, dice, shown, judged, unshown, strays>>
Games(c)    == {g \in guesses : g.chat = c}

\* A full table loses its older half, and a game of this chat keeps its place.
Half     == MaxGames \div 2
Older(g) == {h \in guesses : h.born < g.born}
Newer(g) == {h \in guesses : h.born > g.born}

RoomLate ==                      \* variant: one game too many
    IF Cardinality(guesses) > MaxGames THEN {g \in guesses : Cardinality(Older(g)) >= Half}
    ELSE guesses

Room == IF Cardinality(guesses) >= MaxGames THEN {g \in guesses : Cardinality(Older(g)) >= Half}
        ELSE guesses

Begin(games, c) ==
    IF \E g \in games : g.chat = c
    THEN {IF g.chat = c THEN [g EXCEPT !.tries = 0] ELSE g : g \in games}
    ELSE games \cup {[chat |-> c, tries |-> 0, born |-> orders + 1]}

StartGuess(c) ==
    /\ guesses' = Begin(Room, c)
    /\ evicted' = evicted \cup {<<g.born, Cardinality(Newer(g))>> : g \in guesses \ Room}
    /\ Ordered /\ NotGuessing

CancelGuess(c) ==
    /\ guesses' = guesses \ Games(c)
    /\ Ordered /\ NotGuessing /\ UNCHANGED evicted

\* Right ends the game; only a number within its range counts as a try.
Guess(c, how) ==
    /\ Games(c) # {}
    /\ guesses' = CASE how = "right"   -> guesses \ Games(c)
                    [] how = "wrong"   -> {IF g.chat = c THEN [g EXCEPT !.tries = @ + 1] ELSE g :
                                             g \in guesses}
                    [] how = "outside" -> guesses
    /\ Ordered /\ NotGuessing /\ UNCHANGED evicted

-----------------------------------------------------------------------------
(* The quiz.                                                               *)

NotQuizzing == UNCHANGED <<guesses, evicted, dice, strays>>
Play(p, r)  == playing' = [playing EXCEPT ![p] = r]

\* The command becomes "fetching"; opentdb answers with a question.
AskQuiz(p, c) ==
    /\ playing[p].at = "idle"
    /\ Play(p, [at |-> "fetch", id |-> orders + 1, chat |-> c, left |-> 0])
    /\ Ordered /\ NotQuizzing /\ UNCHANGED <<quiz, score, shown, judged, unshown>>

QuizFetched(p) ==
    /\ playing[p].at = "fetch"
    /\ Play(p, [playing[p] EXCEPT !.at = "translate"])
    /\ Calm /\ NotQuizzing /\ UNCHANGED <<quiz, score, shown, judged, unshown>>

\* No question, or the edit that says so fails: the command is over.
QuizFails(p) ==
    /\ playing[p].at \in {"fetch", "translate"}
    /\ Play(p, AtRest)
    /\ Fault /\ NotQuizzing /\ UNCHANGED <<quiz, score, shown, judged, unshown>>

\* Translated, or left in English if the AI fails: it replaces the chat's
\* question, and only then is it shown.
QuizStored(p) ==
    /\ playing[p].at = "translate"
    /\ quiz' = [quiz EXCEPT ![playing[p].chat] = {playing[p].id}]
    /\ Play(p, [playing[p] EXCEPT !.at = "show"])
    /\ Calm /\ NotQuizzing /\ UNCHANGED <<score, shown, judged, unshown>>

QuizShown(p) ==
    /\ playing[p].at = "show"
    /\ shown' = shown \cup {playing[p].id}
    /\ Play(p, AtRest)
    /\ Calm /\ NotQuizzing /\ UNCHANGED <<quiz, score, judged, unshown>>

QuizNotShown(p) ==
    /\ playing[p].at = "show"
    /\ unshown' = unshown \cup {playing[p].id}
    /\ Play(p, AtRest)
    /\ Fault /\ NotQuizzing /\ UNCHANGED <<quiz, score, shown, judged>>

\* An answer ends the question, and counts, before its edit is awaited.
Judged(c) == quiz' = [quiz EXCEPT ![c] = {}]

Answer(c) ==
    /\ quiz[c] # {}
    /\ Judged(c)
    /\ score' = [score EXCEPT ![c] = @ + 1]
    /\ judged' = judged \cup
         {<<q, q \in shown \/ \E p \in Player : playing[p].at = "show" /\ playing[p].id = q, c>> :
           q \in quiz[c]}
    /\ Ordered /\ NotQuizzing /\ UNCHANGED <<playing, shown, unshown>>

-----------------------------------------------------------------------------
(* The die.                                                                *)

NotThrowing == UNCHANGED <<guesses, evicted, quiz, score, shown, judged, unshown>>

\* The command is deleted first.
AskDie(p) ==
    /\ playing[p].at = "idle"
    /\ Play(p, [at |-> "throw", id |-> orders + 1, chat |-> "none", left |-> Throws])
    /\ Ordered /\ NotThrowing /\ UNCHANGED <<dice, strays>>

\* The next attempt of a command.
Attempt(t) == [at |-> "throw", id |-> t.id, chat |-> t.chat, left |-> t.left - 1]

Die(p, b) == <<playing[p].id, playing[p].left, b>>

ThrowLands(p, hits) ==
    /\ playing[p].at = "throw" /\ playing[p].left > 0
    /\ dice' = dice \cup {Die(p, hits)}
    /\ Play(p, [playing[p] EXCEPT !.at = "read"])
    /\ Calm /\ NotThrowing /\ UNCHANGED strays

\* A flood wait on the throw, or on reading it, costs the attempt, and what was
\* thrown stays unread; another error ends the command with a message.
ThrowFails(p, floods) ==
    /\ playing[p].at \in {"throw", "read"} /\ playing[p].left > 0
    /\ strays' = strays \cup {d \in dice : d[1] = playing[p].id /\ d[2] = playing[p].left}
    /\ Play(p, IF floods THEN Attempt(playing[p]) ELSE AtRest)
    /\ Fault /\ NotThrowing /\ UNCHANGED dice

\* Read: the right one stays, and nothing more is thrown.
ThrowRead(p) ==
    /\ playing[p].at = "read"
    /\ Play(p, IF Die(p, TRUE) \in dice THEN AtRest ELSE [playing[p] EXCEPT !.at = "drop"])
    /\ Calm /\ NotThrowing /\ UNCHANGED <<dice, strays>>

DieDropped(p) ==
    /\ playing[p].at = "drop"
    /\ dice' = dice \ {Die(p, FALSE)}
    /\ Play(p, Attempt(playing[p]))
    /\ Calm /\ NotThrowing /\ UNCHANGED strays

DieStays(p) ==
    /\ playing[p].at = "drop"
    /\ strays' = strays \cup {Die(p, FALSE)}
    /\ Play(p, Attempt(playing[p]))
    /\ Fault /\ NotThrowing /\ UNCHANGED dice

\* After the last attempt a message says so.
DieGivenUp(p) ==
    /\ playing[p].at = "throw" /\ playing[p].left = 0
    /\ Play(p, AtRest)
    /\ Calm /\ NotThrowing /\ UNCHANGED <<dice, strays>>

GamesCrash ==
    /\ Fault
    /\ guesses' = {} /\ quiz' = [c \in Chat |-> {}] /\ score' = [c \in Chat |-> 0]
    /\ playing' = [p \in Player |-> AtRest]
    /\ strays' = strays \cup dice /\ judged' = {}
    /\ UNCHANGED <<dice, shown, unshown, evicted>>

-----------------------------------------------------------------------------
\* The table of games stays within its bound, and a game gives way only if
\* as many games of other chats as the half that stays began after it did
\* (fun.py:196-201).
GuessesGiveWay ==
    /\ Cardinality(guesses) <= MaxGames
    /\ \A e \in evicted : e[2] >= MaxGames - Half

\* An answer counts once, and for a question that is on the screen or about to
\* be: one replaced while it was translated is never judged, but one whose
\* last edit failed may be (fun.py:449-468, 574-582).
QuizCountsOnce ==
    /\ \A j \in judged : j[2] \/ j[1] \in unshown
    /\ \A c \in Chat : score[c] = Cardinality({j \in judged : j[3] = c})

\* At rest no die is left but those that show what was asked for, one for each
\* command, and those a failed call left behind (fun.py:98-116).
DiceClean ==
    /\ \A d \in dice \ strays : d[3] \/ \E p \in Player : playing[p].id = d[1]
    /\ \A d, e \in dice \ strays : d[1] = e[1] => d = e

GamesHold == GuessesGiveWay /\ QuizCountsOnce /\ DiceClean

GamesTypes ==
    /\ \A g, h \in guesses : g.chat = h.chat => g = h
    /\ \A p \in Player : /\ playing[p].at \in {"idle", "fetch", "translate", "show", "throw", "read", "drop"}
                         /\ playing[p].left \in 0..Throws
    /\ \A c \in Chat : quiz[c] \subseteq 1..MaxOrders
=============================================================================
