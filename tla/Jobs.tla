---------------------------------- MODULE Jobs ---------------------------------
(***************************************************************************)
(* The commands that keep nothing: media, voice, text recognition, AI      *)
(* questions, look-ups, moderation, search and texts (bot/handlers/media,  *)
(* audio, ocr, ai, tools, fun, admin, messages, profile, general, help,    *)
(* health, panel, global_search).  Each is a plan: a list of calls in      *)
(* order, each with what the code makes of a call that raises or of an     *)
(* answer it cannot use.  The command's own message is its status line;    *)
(* what is told, sent and done, and in which order, is kept; texts,        *)
(* pictures and sounds are left out.                                       *)
(*                                                                         *)
(* A plan runs between awaits on the one event loop; ffmpeg and the like   *)
(* block it, so they are one step.  Two commands meet at the sticker pack. *)
(***************************************************************************)
EXTENDS Environment, Sequences

CONSTANTS Worker  \* tasks of commands

(* A step: what it does, and what follows if it raises.  "raise" leaves    *)
(* the handler; "tell" edits the command into an error, once more if that  *)
(* edit is itself inside the try ("retell"); "next" goes on.  A call that  *)
(* raises may have reached Telegram all the same.                          *)
On(what, ways) == [do |-> what, else |-> ways]
Bare(what) == On(what, {"raise"})
Try(what)  == On(what, {"tell"})

Reply == Bare("get")   \* get_reply_message, outside every try

-----------------------------------------------------------------------------
(* Media and voice.                                                        *)

Watermark == <<Reply, Bare("busy"), Try("get"), Try("send"), Try("delete")>>

\* What ffmpeg leaves undone is told inside the try.
Compress    == <<Reply, Bare("busy"), Try("get"), On("get", {"tell", "retell"}), Try("send"), Try("delete")>>
ConvertFile == <<Reply, Bare("busy"), Try("get"), On("get", {"tell", "retell"}), Try("send"), Try("delete")>>

\* A pack that cannot be read is taken for one that is not there.
Sticker == <<Reply, Bare("busy"), Try("get"), Try("get"), Try("copy"), Try("uncopy"),
             On("look", {"next"}), Try("place"), Try("show")>>

LocalRecognition == Try("get")    \* ffmpeg and the recogniser, in threads
Transcribe == <<Reply, Bare("busy"), LocalRecognition, Bare("show")>>
TranscribeAndAsk == <<Reply, Bare("busy"), LocalRecognition, Bare("busy"), Try("get"), Bare("show")>>

Synthesis == Try("get")
\* Without an ogg file the mp3 is sent.
Tts == <<Reply, Bare("busy"), Synthesis, On("get", {"tell", "next"}), Try("send"), Try("delete")>>

Ocr == <<Reply, Bare("busy"), Try("get"), Try("get"), Bare("show"), Bare("more")>>

-----------------------------------------------------------------------------
(* Questions to the AI and to services.                                    *)

AskAi == Try("get")               \* ask_ai: an answer, or one of two errors
AskAndReply == <<Bare("busy"), AskAi, Bare("show")>>
\* A voice message is recognised first; its errors are none of those caught.
Ask         == <<Reply, Bare("busy"), Bare("get")>> \o AskAndReply
Summarize   == <<Bare("busy"), Try("get")>> \o AskAndReply
AiTranslate == <<Reply, Bare("busy"), Bare("get")>> \o AskAndReply

LookUp   == <<Try("get"), Try("show")>>
Shorten  == LookUp
Weather  == LookUp
Currency == LookUp
Translate == <<Reply>> \o LookUp
Price    == <<Bare("busy"), Try("get"), Bare("show")>>   \* four hosts, one after the other
Hafez    == <<Try("get"), Bare("show")>>

\* The parts of a search are gathered, and one that fails is left out.
LocalSections  == On("get", {"next"})
ChatMessages   == On("get", {"next"})
PublicEntities == On("get", {"next"})
Search == <<Bare("busy"), LocalSections, ChatMessages, PublicEntities, Bare("show"), Bare("more")>>

\* Each check catches its own failure and reads as FAIL.
HealthChecks == On("get", {"next"})
Health == <<Bare("busy"), HealthChecks, Try("show")>>

-----------------------------------------------------------------------------
(* Moderation, messages, the profile, the panel and plain texts.           *)

Moderate  == <<Reply, Try("act"), Try("show")>>
GroupCall == <<Try("act"), Try("show")>>

DeleteReplied == <<Reply, Bare("act"), Bare("delete")>>
Purge    == <<Reply, Bare("get"), Bare("delete")>>       \* the command is among the messages
Pin      == <<Reply, Bare("act"), Bare("show")>>
SetBio   == <<Bare("act"), Bare("show")>>
SetPhoto == <<Reply, Bare("get"), Bare("get"), Bare("act"), Bare("show")>>

\* The panel is sent through the helper bot, or a link to it shown instead.
Panel      == <<Try("get"), Try("send"), Try("delete")>>
PanelClick == <<Bare("show"), Bare("more")>>
PanelClose == <<On("show", {"next"}), On("delete", {"next"}), Bare("more")>>

Help == <<Bare("show"), Bare("more"), Bare("more")>>
Ping == <<Bare("busy"), Bare("show")>>
Info == <<Reply, Bare("get"), Bare("show")>>

Calc         == <<Try("show")>>   \* and every error of safe_eval is told
TextTool     == <<Reply, Bare("show")>>
Base64       == <<Reply, Try("show")>>
Chance       == <<Bare("show")>>
ChanceOrText == <<Reply, Bare("show")>>
EitherOr     == <<Bare("show")>>

Qr    == <<Bare("delete"), Bare("send")>>
Typed == <<Bare("delete"), Bare("get"), Bare("send")>>
Live  == <<Bare("busy"), On("busy", {"next", "raise"}), Bare("show")>>  \* a flood wait skips a letter

Plan == [watermark |-> Watermark, compress |-> Compress, convert |-> ConvertFile,
         sticker |-> Sticker, transcribe |-> Transcribe, transcribeAsk |-> TranscribeAndAsk,
         tts |-> Tts, ocr |-> Ocr, ask |-> Ask, summarize |-> Summarize, aitr |-> AiTranslate,
         shorten |-> Shorten, weather |-> Weather, currency |-> Currency, tr |-> Translate,
         price |-> Price, hafez |-> Hafez, search |-> Search, health |-> Health,
         moderate |-> Moderate, group |-> GroupCall, del |-> DeleteReplied, purge |-> Purge,
         pin |-> Pin, setbio |-> SetBio, setpic |-> SetPhoto, panel |-> Panel,
         panelClick |-> PanelClick, panelClose |-> PanelClose, help |-> Help, ping |-> Ping,
         info |-> Info, calc |-> Calc, text |-> TextTool, base64 |-> Base64, chance |-> Chance,
         chanceOrText |-> ChanceOrText, wyr |-> EitherOr, qr |-> Qr, type |-> Typed, write |-> Live]

-----------------------------------------------------------------------------
VARIABLES
    jobs,    \* worker -> its command: the plan, the step, the status line, the calls that
             \* returned (did) and those that raised (failed)
    pack,    \* the sticker pack: the commands whose stickers are in it; {} is no pack
    copies   \* commands whose file is still among the saved messages

jobsVars == <<jobs, pack, copies>>

NoJob == [plan |-> "ping", id |-> 0, at |-> "idle", step |-> 1, status |-> "asked", did |-> {},
          failed |-> {}, raised |-> FALSE, again |-> FALSE, sees |-> FALSE]

JobsInit ==
    /\ jobs = [w \in Worker |-> NoJob]
    /\ pack = {} /\ copies = {}

Running(w) == jobs[w].at = "runs"
Now(w)     == Plan[jobs[w].plan][jobs[w].step]
Set(w, r)  == jobs' = [jobs EXCEPT ![w] = r]
Onwards(r) == IF r.step = Len(Plan[r.plan]) THEN [r EXCEPT !.at = "done"] ELSE [r EXCEPT !.step = @ + 1]

StartJob(w, c) ==
    /\ jobs[w].at \in {"idle", "done", "lost"}
    /\ Set(w, [NoJob EXCEPT !.plan = c, !.id = orders + 1, !.at = "runs"])
    /\ Ordered /\ UNCHANGED <<pack, copies>>

\* Not the reply, the file or the arguments it needs: a text says how to use it.
ShowsUsage(w) ==
    /\ Running(w) /\ jobs[w].step = 1
    /\ Set(w, [jobs[w] EXCEPT !.at = "done", !.status = "usage"])
    /\ Calm /\ UNCHANGED <<pack, copies>>

\* The status line after a call.
Status(was, what) == CASE what = "busy" -> "busy" [] what = "show" -> "result" [] what = "delete" -> "gone"
                       [] OTHER -> was

\* AddStickerToSet or CreateStickerSet; the name of a pack is taken once.
Places(r) == r.sees \/ pack = {}

\* What a call leaves behind that took place, whether it then returns or raises.
Lands(r, what) ==
    /\ what = "place" => Places(r)
    /\ pack' = IF what = "place" THEN pack \cup {r.id} ELSE pack
    /\ copies' = CASE what = "copy" -> copies \cup {r.id} [] what = "uncopy" -> copies \ {r.id}
                   [] OTHER -> copies

StepDone(w) ==
    /\ Running(w)
    /\ LET r == jobs[w]  what == Now(w).do
       IN  /\ Set(w, Onwards([r EXCEPT !.status = Status(@, what), !.did = @ \cup {r.step},
                                       !.sees = IF what = "look" THEN pack # {} ELSE @]))
           /\ Lands(r, what)
    /\ Calm

FollowsSilently(r, what, way) ==   \* variant: an error ends the command untold
    LET f == [r EXCEPT !.failed = @ \cup {what}]
    IN  IF way = "next" THEN Onwards(f) ELSE [f EXCEPT !.at = "done", !.raised = (way = "raise")]

Follows(r, what, way) ==
    LET f == [r EXCEPT !.failed = @ \cup {what}]
    IN  CASE way = "raise"  -> [f EXCEPT !.at = "done", !.raised = TRUE]
          [] way = "next"   -> Onwards(f)
          [] way = "tell"   -> [f EXCEPT !.at = "tells"]
          [] way = "retell" -> [f EXCEPT !.at = "tells", !.again = TRUE]

\* A call raises: nothing took place, or what it was to do did, and the answer is lost.
StepFails(w, landed) ==
    /\ Running(w)
    /\ LET r == IF landed THEN [jobs[w] EXCEPT !.status = Status(@, Now(w).do)] ELSE jobs[w]
       IN  \E way \in Now(w).else : Set(w, Follows(r, Now(w).do, way))
    /\ IF landed THEN Lands(jobs[w], Now(w).do) ELSE UNCHANGED <<pack, copies>>
    /\ Fault

\* The name was free when this command looked, and another took it since.
PackTaken(w) ==
    /\ Running(w) /\ Now(w).do = "place" /\ ~Places(jobs[w])
    /\ Set(w, Follows(jobs[w], "place", "tell"))
    /\ Calm /\ UNCHANGED <<pack, copies>>

\* A message that is gone can be edited no more.
ErrorShown(r) == [r EXCEPT !.status = IF @ = "gone" THEN @ ELSE "error"]

TellsError(w) ==
    /\ jobs[w].at = "tells"
    /\ Set(w, [ErrorShown(jobs[w]) EXCEPT !.at = "done", !.raised = (jobs[w].status = "gone")])
    /\ Calm /\ UNCHANGED <<pack, copies>>

TellFails(w, landed) ==
    /\ jobs[w].at = "tells"
    /\ LET r == IF landed THEN ErrorShown(jobs[w]) ELSE jobs[w]
       IN  Set(w, IF r.again THEN [r EXCEPT !.again = FALSE] ELSE [r EXCEPT !.at = "done", !.raised = TRUE])
    /\ Fault /\ UNCHANGED <<pack, copies>>

JobsCrash ==
    /\ Fault
    /\ jobs' = [w \in Worker |-> IF jobs[w].at \in {"runs", "tells"} THEN [jobs[w] EXCEPT !.at = "lost"]
                                 ELSE jobs[w]]
    /\ UNCHANGED <<pack, copies>>

-----------------------------------------------------------------------------
Effects == {"send", "act", "place", "more"}
Achieved(r) == {k \in r.did : Plan[r.plan][k].do \in Effects}

\* A command that no exception ended tells the truth, as far as it can know it: its
\* message says neither "in progress", nor "error" after a call it was made for has
\* returned (the last edit or deletion apart, which may fail after it:
\* media.py:155-160; and a panel that can be neither edited nor deleted stays:
\* panel.py:539-548), and nothing it was to do is left out of one that ended well.
\* It may say "error" of what Telegram did before the answer was lost.  A sticker it
\* reports is in the pack though another command works on the same pack
\* (media.py:358-371), and its file stays among the saved messages only if sending
\* it there, or deleting it, raised (media.py:347-352).
JobsTell ==
    \A w \in Worker :
      LET r == jobs[w]
      IN  r.at = "done" /\ ~r.raised =>
            /\ r.status \in {"usage", "result", "gone", "error"} \/ {"show", "delete"} \subseteq r.failed
            /\ r.status \in {"result", "gone"} /\ r.failed \cap Effects = {} =>
                 \A k \in DOMAIN Plan[r.plan] : Plan[r.plan][k].do \in Effects => k \in r.did
            /\ r.status = "error" /\ r.failed \cap {"show", "delete"} = {} => Achieved(r) = {}
            /\ r.plan = "sticker" /\ r.status = "result" => r.id \in pack
            /\ r.id \in copies => r.failed \cap {"copy", "uncopy"} # {}

JobsTypes ==
    /\ \A w \in Worker : /\ jobs[w].at \in {"idle", "runs", "tells", "done", "lost"}
                         /\ jobs[w].step \in DOMAIN Plan[jobs[w].plan]
                         /\ jobs[w].status \in {"asked", "busy", "usage", "result", "gone", "error"}
    /\ copies \subseteq 1..MaxOrders /\ pack \subseteq 1..MaxOrders
=============================================================================
