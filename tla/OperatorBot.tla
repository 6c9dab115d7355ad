---------------------------- MODULE OperatorBot ----------------------------
(***************************************************************************)
(* TelegramBot of src/notify/bot.py with the commands of main.py that act: *)
(* /stop, /resume and /restart.  Telegram keeps an update until a request  *)
(* names a later offset; the bot keeps its offset in memory, asks for      *)
(* updates in a long poll, and advances the offset before it handles one.  *)
(* A process that starts skips what is waiting, so that a /restart nobody  *)
(* has confirmed is not carried out again.                                 *)
(*                                                                         *)
(* An update is its number; text that is no command, and messages of other *)
(* chats, only move the offset.                                            *)
(***************************************************************************)
EXTENDS Integers, Sequences, FiniteSetsExt

CONSTANTS
    PageSize,   \* updates Telegram returns at most
    MaxSent,    \* bound: commands
    MaxStarts   \* bound: starts of the process

VARIABLES
    inbox,      \* commands sent so far, the number of an update is its place
    confirmed,  \* Telegram: updates up to this one are forgotten
    bot,        \* the loop: "flush" (its request under way), "poll", "batch", "down"
    offset,     \* _offset
    batch,      \* updates of the last answer still to be handled
    halted,     \* _portfolio_halted of the engine, as far as commands set it
    dying,      \* /restart has scheduled the signal
    starts,
    sentBefore, \* history: updates sent when the process started
    handled,    \* history: how often each update was handled
    lapses      \* history: starts whose flush failed or saw no more than one page

botVars == <<inbox, confirmed, bot, offset, batch, halted, dying, starts, sentBefore,
             handled, lapses>>

Commands == {"stop", "resume", "restart", "other"}
Updates == 1..MaxSent

Init ==
    /\ inbox = <<>> /\ confirmed = 0 /\ bot = "flush" /\ offset = 0 /\ batch = {}
    /\ halted = FALSE /\ dying = FALSE /\ starts = 1 /\ sentBefore = 0
    /\ handled = [u \in Updates |-> 0] /\ lapses = 0

Send(command) ==
    /\ Len(inbox) < MaxSent /\ inbox' = Append(inbox, command)
    /\ UNCHANGED <<confirmed, bot, offset, batch, halted, dying, starts, sentBefore,
                   handled, lapses>>

\* What Telegram answers to a request with this offset: a page of the updates it keeps.
Page(from) ==
    LET first == Max({from, confirmed + 1})
    IN  {u \in DOMAIN inbox : u \in first..(first + PageSize - 1)}

-----------------------------------------------------------------------------
(* _flush_old_updates *)

\* A faulty variant: nothing is skipped.
NoFlush ==
    /\ bot = "flush" /\ bot' = "poll"
    /\ UNCHANGED <<inbox, confirmed, offset, batch, halted, dying, starts, sentBefore,
                   handled, lapses>>

\* The request has no offset.  It waits in a long poll when nothing is there, so that what
\* it returns may have been sent after the start.
FlushSkips ==
    /\ bot = "flush" /\ Page(0) # {}
    /\ bot' = "poll" /\ offset' = Max(Page(0)) + 1
    /\ lapses' = IF Max(Page(0)) < sentBefore THEN lapses + 1 ELSE lapses
    /\ UNCHANGED <<inbox, confirmed, batch, halted, dying, starts, sentBefore, handled>>

FlushTimesOut ==
    /\ bot = "flush" /\ Page(0) = {} /\ bot' = "poll"
    /\ UNCHANGED <<inbox, confirmed, offset, batch, halted, dying, starts, sentBefore,
                   handled, lapses>>

\* An error, or a status other than 200: the loop starts without an offset.
FlushFails ==
    /\ bot = "flush" /\ bot' = "poll" /\ lapses' = lapses + 1
    /\ UNCHANGED <<inbox, confirmed, offset, batch, halted, dying, starts, sentBefore,
                   handled>>

-----------------------------------------------------------------------------
(* _poll_loop and _handle_update *)

\* The request confirms what came before the offset, also when its answer is lost.
Poll ==
    /\ bot = "poll" /\ confirmed' = Max({confirmed, offset - 1})
    /\ \/ /\ Page(offset) # {} /\ bot' = "batch"
          /\ batch' = Page(offset)
       \/ UNCHANGED <<bot, batch>>
    /\ UNCHANGED <<inbox, offset, halted, dying, starts, sentBefore, handled, lapses>>

\* The updates of an answer come in the order of their numbers.  A handler that raises has
\* its error sent as the answer.
Handle ==
    /\ bot = "batch"
    /\ LET u == Min(batch)
       IN  /\ offset' = Max({offset, u + 1})
           /\ handled' = [handled EXCEPT ![u] = @ + 1]
           /\ halted' = CASE inbox[u] = "stop" -> TRUE
                          [] inbox[u] = "resume" -> FALSE
                          [] OTHER -> halted
           /\ dying' = (dying \/ inbox[u] = "restart")
    /\ batch' = batch \ {Min(batch)} /\ bot' = IF batch' = {} THEN "poll" ELSE "batch"
    /\ UNCHANGED <<inbox, confirmed, starts, sentBefore, lapses>>

\* The signal of /restart, or a crash: offset and halt are in memory only.
Down ==
    /\ bot # "down" /\ starts < MaxStarts
    /\ bot' = "down" /\ batch' = {} /\ offset' = 0 /\ halted' = FALSE /\ dying' = FALSE
    /\ UNCHANGED <<inbox, confirmed, starts, sentBefore, handled, lapses>>

Start ==
    /\ bot = "down" /\ bot' = "flush"
    /\ starts' = starts + 1 /\ sentBefore' = Len(inbox)
    /\ UNCHANGED <<inbox, confirmed, offset, batch, halted, dying, handled, lapses>>

Next ==
    \/ \E command \in Commands : Send(command)
    \/ FlushSkips \/ FlushTimesOut \/ FlushFails \/ Poll \/ Handle \/ Down \/ Start

Spec == Init /\ [][Next]_botVars

-----------------------------------------------------------------------------
(* Properties *)

\* The types of the loop's variables.
TypeOK ==
    /\ inbox \in Seq(Commands) /\ confirmed \in 0..MaxSent /\ offset \in 0..(MaxSent + 1)
    /\ bot \in {"flush", "poll", "batch", "down"} /\ (bot = "batch") = (batch # {})
    /\ batch \subseteq Updates

\* No restart loop: a command is carried out once, and once more at most for each start
\* whose flush failed or was shorter than the backlog.
HandledAgainOnlyAfterLapse == \A u \in DOMAIN inbox : handled[u] <= 1 + lapses
=============================================================================
