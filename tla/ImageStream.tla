----------------------------- MODULE ImageStream -----------------------------
(***************************************************************************)
(* internal/xai/websocket_stream.go: streamImages, the goroutine that      *)
(* reads the image websocket, its blocked timer, and the consumer of its   *)
(* events, generateSingle (internal/flow/image_generate.go).               *)
(*                                                                         *)
(* The timer's function takes mu and keeps it while it sends, and safeSend *)
(* selects between doneCh and the send.  The deferred calls of the reader  *)
(* stop the timer under mu, close doneCh and close the channel, in steps   *)
(* of their own: a timer function that got going too late to be stopped    *)
(* finds the channel open, done or closed.                                 *)
(***************************************************************************)
EXTENDS Integers, Sequences

CONSTANTS Places    \* the places of eventCh (16)

ASSUME StreamAssumption == Places \in Nat \ {0}

VARIABLES
  reader,     \* where streamImages stands
  sending,    \* the event it sends next, and what follows
  events,     \* eventCh
  mu,         \* who holds the mutex
  hasMedium, hasFinal,
  timer,      \* the blocked timer and its function
  doneCh,     \* doneCh is closed
  eventCh,    \* eventCh is closed
  ctxDone,    \* the request's context has ended
  finalImage, \* the consumer has received an image
  consumer,   \* what generateSingle returned
  finalSent   \* history: the final image is in the channel or was received

imageVars == <<reader, sending, events, mu, hasMedium, hasFinal, timer, doneCh, eventCh,
               ctxDone, finalImage, consumer, finalSent>>

Events == {"preview", "medium", "final", "blocked", "error"}

StreamTypeOK ==
  /\ reader \in {"read", "medium", "final", "send", "stop", "done", "close", "ended"}
  /\ sending \in {<<"none", "none">>} \cup ({"preview", "medium", "final", "error"} \X {"read", "stop"})
  /\ events \in Seq(Events) /\ Len(events) <= Places
  /\ mu \in {"free", "timer"}
  /\ hasMedium \in BOOLEAN /\ hasFinal \in BOOLEAN
  /\ timer \in {"unset", "armed", "fired", "sending", "panicked", "off"}
  /\ doneCh \in BOOLEAN /\ eventCh \in BOOLEAN /\ ctxDone \in BOOLEAN
  /\ finalImage \in BOOLEAN /\ finalSent \in BOOLEAN
  /\ consumer \in {"ranging", "image", "blocked", "error"}

StreamInit ==
  /\ reader = "read" /\ sending = <<"none", "none">>
  /\ events = <<>>
  /\ mu = "free"
  /\ hasMedium = FALSE /\ hasFinal = FALSE
  /\ timer = "unset"
  /\ doneCh = FALSE /\ eventCh = FALSE /\ ctxDone = FALSE
  /\ finalImage = FALSE /\ finalSent = FALSE
  /\ consumer = "ranging"

(* safeSend of an event, then go on at label. *)
SendThen(event, label) == reader' = "send" /\ sending' = <<event, label>>

(* The reset and request messages could not be written; the head of the    *)
(* loop finds the context done; reading fails, times out or is closed; a   *)
(* message arrives.  Malformed ones are skipped.                           *)
ReadMessage ==
  /\ reader = "read"
  /\ \/ ctxDone /\ SendThen("error", "stop")
     \/ ~ctxDone /\ \/ SendThen("preview", "read")
                    \/ reader' = "medium" /\ UNCHANGED sending
                    \/ reader' = "final" /\ UNCHANGED sending
                    \/ SendThen("error", "stop")
                    \/ reader' = "stop" /\ UNCHANGED sending
  /\ UNCHANGED <<events, mu, hasMedium, hasFinal, timer, doneCh, eventCh, ctxDone,
                 finalImage, consumer, finalSent>>

Medium ==
  /\ reader = "medium" /\ mu = "free"
  /\ hasMedium' = TRUE
  /\ timer' = IF timer = "unset" THEN "armed" ELSE timer
  /\ SendThen("medium", "read")
  /\ UNCHANGED <<events, mu, hasFinal, doneCh, eventCh, ctxDone, finalImage, consumer, finalSent>>

StopTimer == timer' = IF timer \in {"armed", "unset"} THEN "off" ELSE timer

(* Mutant: the timer is stopped but the final image is not noted.          *)
FinalUnnoted ==
  /\ reader = "final" /\ mu = "free"
  /\ StopTimer
  /\ SendThen("final", "stop")
  /\ UNCHANGED <<events, mu, hasMedium, hasFinal, doneCh, eventCh, ctxDone, finalImage, consumer, finalSent>>

Final ==
  /\ reader = "final" /\ mu = "free"
  /\ hasFinal' = TRUE
  /\ StopTimer
  /\ SendThen("final", "stop")
  /\ UNCHANGED <<events, mu, hasMedium, doneCh, eventCh, ctxDone, finalImage, consumer, finalSent>>

(* The reader's send: doneCh is still open, so only the channel counts.    *)
Send ==
  /\ reader = "send"
  /\ Len(events) < Places
  /\ events' = Append(events, sending[1])
  /\ finalSent' = (finalSent \/ sending[1] = "final")
  /\ reader' = sending[2]
  /\ sending' = <<"none", "none">>
  /\ UNCHANGED <<mu, hasMedium, hasFinal, timer, doneCh, eventCh, ctxDone, finalImage, consumer>>

(* The deferred calls. *)
DeferredStop ==
  /\ reader = "stop" /\ mu = "free"
  /\ StopTimer
  /\ reader' = "done"
  /\ UNCHANGED <<sending, events, mu, hasMedium, hasFinal, doneCh, eventCh, ctxDone,
                 finalImage, consumer, finalSent>>

DeferredDone ==
  /\ reader = "done"
  /\ doneCh' = TRUE
  /\ reader' = "close"
  /\ UNCHANGED <<sending, events, mu, hasMedium, hasFinal, timer, eventCh, ctxDone,
                 finalImage, consumer, finalSent>>

(* Mutant: the channel is never closed. *)
DeferredNoClose ==
  /\ reader = "close"
  /\ reader' = "ended"
  /\ UNCHANGED <<sending, events, mu, hasMedium, hasFinal, timer, doneCh, eventCh, ctxDone,
                 finalImage, consumer, finalSent>>

DeferredClose ==
  /\ reader = "close"
  /\ eventCh' = TRUE
  /\ reader' = "ended"
  /\ UNCHANGED <<sending, events, mu, hasMedium, hasFinal, timer, doneCh, ctxDone,
                 finalImage, consumer, finalSent>>

-----------------------------------------------------------------------------
TimerFires ==
  /\ timer = "armed"
  /\ timer' = "fired"
  /\ UNCHANGED <<reader, sending, events, mu, hasMedium, hasFinal, doneCh, eventCh, ctxDone,
                 finalImage, consumer, finalSent>>

TimerLocks ==
  /\ timer = "fired" /\ mu = "free"
  /\ IF hasMedium /\ ~hasFinal
     THEN timer' = "sending" /\ mu' = "timer"
     ELSE timer' = "off" /\ UNCHANGED mu
  /\ UNCHANGED <<reader, sending, events, hasMedium, hasFinal, doneCh, eventCh, ctxDone,
                 finalImage, consumer, finalSent>>

(* safeSend in the timer's function: a select in which a closed doneCh     *)
(* returns, a closed eventCh panics and a place in it takes the event.     *)
TimerSends ==
  /\ timer = "sending"
  /\ \/ doneCh /\ timer' = "off" /\ UNCHANGED events
     \/ eventCh /\ timer' = "panicked" /\ UNCHANGED events
     \/ ~eventCh /\ Len(events) < Places /\ events' = Append(events, "blocked") /\ timer' = "off"
  /\ mu' = "free"
  /\ UNCHANGED <<reader, sending, hasMedium, hasFinal, doneCh, eventCh, ctxDone,
                 finalImage, consumer, finalSent>>

-----------------------------------------------------------------------------
(* generateSingle ranges over the channel. *)
Receive ==
  /\ consumer = "ranging" /\ events # <<>>
  /\ events' = Tail(events)
  /\ finalImage' = (finalImage \/ Head(events) = "final")
  /\ consumer' = IF Head(events) \in {"blocked", "error"} THEN Head(events) ELSE "ranging"
  /\ UNCHANGED <<reader, sending, mu, hasMedium, hasFinal, timer, doneCh, eventCh, ctxDone, finalSent>>

RangeEnds ==
  /\ consumer = "ranging" /\ events = <<>> /\ eventCh
  /\ consumer' = IF finalImage THEN "image" ELSE "error"
  /\ UNCHANGED <<reader, sending, events, mu, hasMedium, hasFinal, timer, doneCh, eventCh,
                 ctxDone, finalImage, finalSent>>

(* The deadline, or the request that has its result. *)
CtxEnds ==
  /\ ~ctxDone
  /\ ctxDone' = TRUE
  /\ UNCHANGED <<reader, sending, events, mu, hasMedium, hasFinal, timer, doneCh, eventCh,
                 finalImage, consumer, finalSent>>

ReaderStep == ReadMessage \/ Medium \/ Final \/ Send \/ DeferredStop \/ DeferredDone \/ DeferredClose
TimerStep == TimerLocks \/ TimerSends
ConsumerStep == Receive \/ RangeEnds

StreamNext == timer # "panicked" /\ (ReaderStep \/ TimerFires \/ TimerStep \/ ConsumerStep \/ CtxEnds)

(* A read ends because of its deadline, the context because of the         *)
(* request's.  The timer may fire or be stopped.                           *)
StreamFairness ==
  /\ WF_imageVars(timer # "panicked" /\ ReaderStep)
  /\ WF_imageVars(timer # "panicked" /\ TimerStep)
  /\ WF_imageVars(timer # "panicked" /\ ConsumerStep)
  /\ WF_imageVars(timer # "panicked" /\ CtxEnds)

-----------------------------------------------------------------------------
(* Properties.                                                             *)

(* An image that has been sent is not taken for a blocked generation: no   *)
(* blocked event follows a final one, however the timer races the reader.  *)
NoBlockAfterFinal ==
  /\ finalSent /\ consumer = "blocked" => ~finalImage
  /\ \A i, j \in DOMAIN events : events[i] = "final" /\ i < j => events[j] # "blocked"

(* generateSingle always returns, whatever the upstream sends, unless the  *)
(* late timer function takes the process down.                             *)
GenerationAnswered == <>(consumer # "ranging" \/ timer = "panicked")

(* The process is taken down only by a timer that fired before the stream  *)
(* ended without an image.                                                 *)
PanicNeedsEndedStream == timer = "panicked" => reader = "ended" /\ ~hasFinal

=============================================================================
