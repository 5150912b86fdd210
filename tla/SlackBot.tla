------------------------------ MODULE SlackBot ------------------------------
(***************************************************************************)
(* tools/slack_bot.py: the poller thread (load the state, run the          *)
(* detectors of SlackDetectors, save, post each event, flush the digest)   *)
(* and the command thread, which share one state file without a lock: each *)
(* loads it, changes its copy and saves the whole of it.  The lab's files  *)
(* change under them; a message may fail to go out or be sent although the *)
(* call raised; the process may be killed and started again.  The shared   *)
(* name of the temporary file, and the commands that only read, are left   *)
(* out.                                                                    *)
(***************************************************************************)
EXTENDS SlackDetectors

CONSTANTS
    Reasons, Verdicts, Texts, Phases,   \* what the lab may write
    Past,                               \* the decisions an earlier bot has seen
    FirstLimit,                         \* the rate limit the bot is started in, 0 for none
    ShortCounts,                        \* how many short session logs there may be
    MaxChanges,                         \* bound on changes of the lab and on nightfalls
    MaxFaults,                          \* bound on failed posts and kills
    MaxCommands                         \* bound on pause commands

ASSUME SlackBotAssumption ==
    /\ {MaxChanges, MaxFaults, MaxCommands} \subseteq Nat
    /\ FirstLimit \in Nat \ (1 .. MaxChanges)
    /\ ShortCounts \subseteq Nat /\ Phases \subseteq Nat /\ None \notin Verdicts
    /\ Past \in Seq(Texts) /\ Len(Past) <= 5

VARIABLES
    w,          \* the lab's files, as the detectors see them
    quiet,      \* it is night: in_quiet_hours
    over,       \* the pauses that have run out
    disk,       \* slack_bot_state.json
    poller,     \* [pc, mine: the state it loaded, events: those it still has to post]
    command,    \* the command thread: [pc, mine]
    history,    \* ghost: the type of every event, in the order of detection
    posts,      \* ghost: how often each event reached the channel
    settled,    \* ghost: the lab has not changed since the detectors ran
    torn,       \* ghost: a save overwrote what another thread had saved since the load
    lost,       \* ghost: the process was killed
    doubt,      \* ghost: a message went out although the call raised
    changes, faults, commands

ghosts == <<history, posts, settled, torn, lost, doubt>>
bounds == <<changes, faults, commands>>
botVars == <<w, quiet, over, disk, poller, command, ghosts, bounds>>

Idle == [pc |-> "idle", mine |-> FirstState, events |-> << >>]
NoCommand == [pc |-> "none", mine |-> FirstState]

FirstWorld == [
    exit |-> [n |-> 0, reason |-> None], verdict |-> None, decision |-> [n |-> Len(Past), text |-> None],
    ledger |-> 0, limit |-> [at |-> FirstLimit, past |-> FALSE], silence |-> 0, tmux |-> TRUE,
    status |-> {}, user |-> [f \in UserFiles |-> None], clock |-> 0, short |-> 0,
    advancing |-> FALSE, program |-> 1, phase |-> 1, ckpt |-> [c \in Cells |-> 0]]

BotInit ==
    /\ w = FirstWorld /\ quiet = FALSE /\ over = {}
    /\ disk = [FirstState EXCEPT !.decision = Len(Past), !.window = Past]
    /\ poller = Idle /\ command = NoCommand
    /\ history = << >> /\ posts = << >> /\ settled = FALSE
    /\ torn = FALSE /\ lost = FALSE /\ doubt = FALSE
    /\ changes = 0 /\ faults = 0 /\ commands = 0

(* save_state of a thread that had loaded mine. *)
Save(mine, new) ==
    /\ disk' = new
    /\ torn' = (torn \/ disk # mine)

Paused(s) == s.pause # 0 /\ s.pause \notin over

-----------------------------------------------------------------------------
(* The lab. *)

Changed(new) ==
    /\ changes < MaxChanges /\ new # w
    /\ w' = new /\ changes' = changes + 1 /\ settled' = FALSE
    /\ UNCHANGED <<quiet, over, disk, poller, command, history, posts, torn, lost, doubt, faults, commands>>

(* A session ends, the evaluator reports, a decision or an accountability entry is logged. *)
SessionChanges ==
    \/ \E r \in Reasons : Changed([w EXCEPT !.exit = [n |-> @.n + 1, reason |-> r]])
    \/ \E v \in Verdicts : Changed([w EXCEPT !.verdict = v])
    \/ \E t \in Texts : Changed([w EXCEPT !.decision = [n |-> @.n + 1, text |-> t]])
    \/ Changed([w EXCEPT !.ledger = @ + 1])

(* The session log, the tmux session (stop and resume too), the rate-limit gate. *)
LivenessChanges ==
    \/ \E d \in 0..2 : Changed([w EXCEPT !.silence = d])
    \/ Changed([w EXCEPT !.tmux = ~@])
    \/ ~Limited(w) /\ Changed([w EXCEPT !.limit = [at |-> changes + 1, past |-> FALSE]])
    \/ Limited(w) /\ Changed([w EXCEPT !.limit.past = TRUE])
    \/ w.limit.past /\ Changed([w EXCEPT !.limit = [at |-> 0, past |-> FALSE]])

(* current.md, the user files, the short sessions, the checkpoints. *)
ProgramChanges ==
    \/ \E words \in SUBSET {"VICTORY", "CATASTROPHIC"} : Changed([w EXCEPT !.status = words])
    \/ \E f \in UserFiles, d \in {None, "PENDING", "GO"} : Changed([w EXCEPT !.user[f] = d])
    \/ Changed([w EXCEPT !.clock = @ + 1])
    \/ \E n \in ShortCounts : Changed([w EXCEPT !.short = n])
    \/ Changed([w EXCEPT !.advancing = ~@])
    \/ \E p \in Phases \union {Unknown} : Changed([w EXCEPT !.phase = p])
    \/ \E p \in {Unknown, 1, 2} : Changed([w EXCEPT !.program = p])
    \/ \E c \in Cells, n \in 1..StepsPerCell : Changed([w EXCEPT !.ckpt[c] = n])

Nightfall ==
    /\ ~quiet /\ changes < MaxChanges
    /\ quiet' = TRUE /\ changes' = changes + 1
    /\ UNCHANGED <<w, over, disk, poller, command, ghosts, faults, commands>>

Morning ==
    /\ quiet /\ quiet' = FALSE
    /\ UNCHANGED <<w, over, disk, poller, command, ghosts, bounds>>

PauseEnds ==
    /\ \E i \in (1..commands) \ over : over' = over \union {i}
    /\ UNCHANGED <<w, quiet, disk, poller, command, ghosts, bounds>>

-----------------------------------------------------------------------------
(* The poller. *)

PollLoad ==
    /\ poller.pc = "idle"
    /\ poller' = [poller EXCEPT !.pc = "detect", !.mine = disk]
    /\ UNCHANGED <<w, quiet, over, disk, command, ghosts, bounds>>

Detect ==
    /\ poller.pc = "detect"
    /\ LET r == DETECTORS(poller.mine, w)
           n == Len(history)
       IN  /\ Save(poller.mine, r.s)
           /\ history' = history \o r.say
           /\ posts' = posts \o [i \in 1..Len(r.say) |-> 0]
           /\ poller' = [Idle EXCEPT !.pc = "post", !.events = [i \in 1..Len(r.say) |-> n + i]]
    /\ settled' = TRUE
    /\ UNCHANGED <<w, quiet, over, command, lost, doubt, bounds>>

PostLoad ==
    /\ poller.pc = "post" /\ poller.events # << >>
    /\ poller' = [poller EXCEPT !.pc = "send", !.mine = disk]
    /\ UNCHANGED <<w, quiet, over, disk, command, ghosts, bounds>>

Current == Head(poller.events)
IsUrgent == history[Current] \in Urgent
GoesOut == IsUrgent \/ (~Paused(poller.mine) /\ ~quiet)
Posted == poller' = [Idle EXCEPT !.pc = "post", !.events = Tail(poller.events)]
ToDigest == Save(poller.mine, [poller.mine EXCEPT !.queue = Append(@, Current)])

Buffer ==
    /\ poller.pc = "send" /\ ~GoesOut
    /\ ToDigest /\ Posted
    /\ UNCHANGED <<w, quiet, over, command, history, posts, settled, lost, doubt, bounds>>

Post ==
    /\ poller.pc = "send" /\ GoesOut
    /\ posts' = [posts EXCEPT ![Current] = @ + 1]
    /\ Posted
    /\ UNCHANGED <<w, quiet, over, disk, command, history, settled, torn, lost, doubt, bounds>>

(* The call raises, whether or not the message went out. *)
PostFails ==
    /\ poller.pc = "send" /\ GoesOut /\ faults < MaxFaults
    /\ faults' = faults + 1
    /\ ToDigest /\ Posted
    /\ \E out \in {0, 1} :
          posts' = [posts EXCEPT ![Current] = @ + out] /\ doubt' = (doubt \/ out = 1)
    /\ UNCHANGED <<w, quiet, over, command, history, settled, lost, changes, commands>>

FlushDue == disk.queue # << >> /\ ~quiet
FlushLoad ==
    /\ poller.pc = "post" /\ poller.events = << >>
    /\ poller' = IF FlushDue THEN [poller EXCEPT !.pc = "flush", !.mine = disk] ELSE Idle
    /\ UNCHANGED <<w, quiet, over, disk, command, ghosts, bounds>>

DigestOut(times) ==
    posts' = [i \in DOMAIN posts |->
                 posts[i] + IF \E j \in DOMAIN poller.mine.queue : poller.mine.queue[j] = i
                            THEN times ELSE 0]

Flush ==
    /\ poller.pc = "flush"
    /\ DigestOut(1)
    /\ poller' = [poller EXCEPT !.pc = "clear"]
    /\ UNCHANGED <<w, quiet, over, disk, command, history, settled, torn, lost, doubt, bounds>>

FlushFails ==
    /\ poller.pc = "flush" /\ faults < MaxFaults
    /\ faults' = faults + 1
    /\ \E out \in {0, 1} : DigestOut(out) /\ doubt' = (doubt \/ out = 1)
    /\ poller' = Idle
    /\ UNCHANGED <<w, quiet, over, disk, command, history, settled, torn, lost, changes, commands>>

ClearedQueueKept == poller.mine
ClearedQueue == [poller.mine EXCEPT !.queue = << >>]
FlushClear ==
    /\ poller.pc = "clear"
    /\ Save(poller.mine, ClearedQueue)
    /\ poller' = Idle
    /\ UNCHANGED <<w, quiet, over, command, history, posts, settled, lost, doubt, bounds>>

Poll == PollLoad \/ Detect \/ PostLoad \/ Buffer \/ Post \/ PostFails
           \/ FlushLoad \/ Flush \/ FlushFails \/ FlushClear

-----------------------------------------------------------------------------
(* The command thread: pause N. *)

CommandLoad ==
    /\ command.pc = "none" /\ commands < MaxCommands
    /\ commands' = commands + 1
    /\ command' = [pc |-> "pause", mine |-> disk]
    /\ UNCHANGED <<w, quiet, over, disk, poller, ghosts, changes, faults>>

CommandSave ==
    /\ command.pc = "pause"
    /\ Save(command.mine, [command.mine EXCEPT !.pause = commands])
    /\ command' = NoCommand
    /\ UNCHANGED <<w, quiet, over, poller, history, posts, settled, lost, doubt, bounds>>

Kill ==
    /\ faults < MaxFaults /\ poller.pc # "idle"
    /\ faults' = faults + 1 /\ lost' = TRUE
    /\ poller' = Idle /\ command' = NoCommand
    /\ UNCHANGED <<w, quiet, over, disk, history, posts, settled, torn, doubt, changes, commands>>

BotNext ==
    \/ SessionChanges \/ LivenessChanges \/ ProgramChanges \/ Nightfall \/ Morning \/ PauseEnds
    \/ Poll \/ CommandLoad \/ CommandSave \/ Kill

BotSpec == BotInit /\ [][BotNext]_botVars

-----------------------------------------------------------------------------
(* Every event is posted, or waits in the digest or in the poller, exactly  *)
(* once: neither the pause, the night, a failed post nor a failed flush     *)
(* loses or repeats one.  The exceptions are named: a kill, a save over     *)
(* another thread's save, a message that went out although the call raised. *)
Waiting(i) ==
    Cardinality({j \in DOMAIN poller.events : poller.events[j] = i})
    + IF poller.pc = "clear" THEN 0
      ELSE Cardinality({j \in DOMAIN disk.queue : disk.queue[j] = i})
DeliveredOnce ==
    ~torn /\ ~lost => \A i \in DOMAIN history :
        IF doubt THEN posts[i] + Waiting(i) >= 1 ELSE posts[i] + Waiting(i) = 1

(* An all-clear follows the alarm it clears, and the lab is declared dead   *)
(* again only after it was declared alive.                                  *)
Clears == [type \in {"LAB_ALIVE", "HOLDING_LOOP_CLEARED", "HOLDING_LOOP_END", "RATE_LIMIT_END"} |->
    CASE type = "LAB_ALIVE" -> "LAB_DEAD"
      [] type = "HOLDING_LOOP_CLEARED" -> "HOLDING_LOOP_DETECTED"
      [] type = "HOLDING_LOOP_END" -> "HOLDING_LOOP"
      [] type = "RATE_LIMIT_END" -> "RATE_LIMIT"]
LastOf(types, n) == LET is == {i \in 1..n : history[i] \in types}
                    IN  IF is = {} THEN None ELSE history[Max(is)]
ClearsWhatItRaised ==
    ~torn => \A i \in DOMAIN history :
        /\ history[i] \in DOMAIN Clears =>
              LastOf({history[i], Clears[history[i]]}, i - 1) = Clears[history[i]]
        /\ history[i] = "LAB_DEAD" => LastOf({"LAB_DEAD", "LAB_ALIVE"}, i - 1) # "LAB_DEAD"

(* Once the detectors have run over an unchanged lab, the last word on each  *)
(* alarm agrees with the lab: silence, the holding loop, the verdict.        *)
LastWordIsTrue ==
    settled /\ ~torn =>
        LET lab == LastOf({"LAB_DEAD", "LAB_ALIVE"}, Len(history))
            loop == LastOf({"HOLDING_LOOP_DETECTED", "HOLDING_LOOP_CLEARED"}, Len(history))
            verdict == LastOf({"EVALUATOR_FAIL", "EVALUATOR_OTHER"}, Len(history))
        IN  /\ w.silence = 2 /\ ~Limited(w) => lab = "LAB_DEAD"
            /\ w.silence = 0 \/ Limited(w) => lab # "LAB_DEAD"
            /\ (w.short >= TriggerCount /\ ~w.advancing) <=> loop = "HOLDING_LOOP_DETECTED"
            /\ w.verdict = "FAIL" <=> verdict = "EVALUATOR_FAIL"

(* What the channel was told of an alarm is paired and agrees with the lab.  *)
AlarmsAreTrue == ClearsWhatItRaised /\ LastWordIsTrue

(* The answer to pause: notifications are paused, events queued to the digest.  *)
(* A thread whose own copy of the state says paused sends no event that is not  *)
(* urgent to the channel.  It does: the digest is flushed during a pause.       *)
PauseHonoured ==
    [][Paused(poller.mine) => \A i \in DOMAIN posts : posts'[i] > posts[i] => history[i] \in Urgent]_botVars
=============================================================================
