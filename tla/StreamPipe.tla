----------------------------- MODULE StreamPipe -----------------------------
(***************************************************************************)
(* The way of an answer to the client: the upstream's reader               *)
(* (upstream/grok/stream.go), the flow that filters its events and retries *)
(* a stream that breaks (flow/chat_stream.go, chat.go), and the response,  *)
(* streaming or collected (openai/stream*.go), with a bounded channel      *)
(* between each two of them.  The tokens of the attempts are ChatFlow's.   *)
(***************************************************************************)
EXTENDS StreamText

CONSTANTS
  Answers,   \* what the upstream may say: sequences of [think, text] parts
  Requests,  \* [stream, tools, think]: what the client may ask for
  MaxTries,  \* attempts of one request
  ChCap,     \* capacity of the upstream's channel (64 in the code)
  OutCap,    \* capacity of the flow's channel (64 in the code)
  Media,     \* media generation is enabled: images are rewritten
  Filters    \* the tags the configuration filters: subset of {"card", "drop"}

ASSUME CapAssumption == {MaxTries, ChCap, OutCap} \subseteq Nat \ {0}

(* A part says something, and a request has its three switches. *)
ASSUME AnswerAssumption ==
  /\ Answers \subseteq Seq([think : BOOLEAN, text : Seq(Symbols) \ {<<>>}])
  /\ Requests \subseteq [stream : BOOLEAN, tools : BOOLEAN, think : BOOLEAN]

VARIABLES
  req,      \* the request
  answer,   \* what the upstream says
  src,      \* the reader: [pc, parts], parts still to come
  ch,       \* events on their way to the flow
  flow,     \* [pc, try, filter, tool, queue]: queue waits for room in out
  out,      \* events on their way to the response
  outOpen,  \* the flow has not closed out
  wr,       \* the response: [pc, tool, open, seen, gate, rw]
  got,      \* [text, calls, end]; a client that does not stream gets it at the end
  left,     \* the client has gone
  excused   \* history: an attempt broke after output, or a chunk ended in a
            \* card's end tag

pipeVars == <<req, answer, src, ch, flow, out, outOpen, wr, got, left, excused>>

Event(content, reason, calls, dl) ==
  [kind |-> "event", content |-> content, reason |-> reason, calls |-> calls, dl |-> dl]
ErrorEvent == [Event(<<>>, <<>>, <<>>, FALSE) EXCEPT !.kind = "error"]
FinishEvent == [Event(<<>>, <<>>, <<>>, FALSE) EXCEPT !.kind = "finish"]

Worth(e) == e.content # <<>> \/ e.reason # <<>> \/ e.calls # <<>>
IfWorth(e) == IF Worth(e) THEN <<e>> ELSE <<>>

PipeInit ==
  /\ req \in Requests
  /\ answer \in Answers
  /\ src = [pc |-> "run", parts |-> answer]
  /\ ch = <<>>
  /\ flow = [pc |-> "receive", try |-> 1, filter |-> FreshFilter, tool |-> Fresh, queue |-> <<>>]
  /\ out = <<>>
  /\ outOpen = TRUE
  /\ wr = [pc |-> "read", tool |-> Fresh, open |-> FALSE, seen |-> FALSE,
           gate |-> <<>>, rw |-> FALSE]
  /\ got = [text |-> <<>>, calls |-> <<>>, end |-> "none"]
  /\ left = FALSE
  /\ excused = FALSE

(* The request's context: net/http cancels it when the handler returns. *)
Cancelled == left \/ wr.pc # "read"

-----------------------------------------------------------------------------
(* The upstream's reader. *)

srcRest == <<req, answer, flow, out, outOpen, wr, got, left, excused>>

Produce ==
  /\ src.pc = "run" /\ src.parts # <<>> /\ Len(ch) < ChCap
  /\ LET part == Head(src.parts) IN
     \E n \in 1..Len(part.text) :
       LET said == SubSeq(part.text, 1, n)
           rest == SubSeq(part.text, n + 1, Len(part.text))
       IN /\ ch' = Append(ch, IF part.think THEN Event(<<>>, said, <<>>, TRUE)
                              ELSE Event(said, <<>>, <<>>, TRUE))
          /\ src' = [src EXCEPT !.parts =
                       IF rest = <<>> THEN Tail(@)
                       ELSE <<[part EXCEPT !.text = rest]>> \o Tail(@)]
  /\ UNCHANGED srcRest

Eof ==
  /\ src.pc = "run" /\ src.parts = <<>>
  /\ src' = [src EXCEPT !.pc = "closed"]
  /\ UNCHANGED <<ch, srcRest>>

(* A read error, or a line that does not parse. *)
Break ==
  /\ src.pc = "run" /\ Len(ch) < ChCap
  /\ ch' = Append(ch, ErrorEvent)
  /\ src' = [pc |-> "closed", parts |-> <<>>]
  /\ UNCHANGED srcRest

-----------------------------------------------------------------------------
(* consumeUpstreamEvents and the retries around it. *)

flowRest == <<req, wr, got, left>>

Filtered(f, text) ==
  Bind(IF "card" \in Filters THEN PushCard(f.card, text)
       ELSE [p |-> f.card, out |-> text], LAMBDA c :
  Bind(IF "drop" \in Filters THEN PushDrop(f.drop, c.out)
       ELSE [p |-> f.drop, out |-> c.out], LAMBDA d :
  [f |-> [card |-> c.p, drop |-> d.p], out |-> d.out]))

(* The events of one upstream event, of none or one, and the parsers after. *)
Consume(filter, tool, e) ==
  Bind(IF e.content = <<>> THEN [f |-> filter, out |-> <<>>]
       ELSE Filtered(filter, e.content), LAMBDA c :
  Bind(IF e.reason = <<>> THEN [f |-> c.f, out |-> <<>>]
       ELSE Filtered(c.f, e.reason), LAMBDA r :
  Bind(IF c.out = <<>> THEN [p |-> tool, out |-> <<>>, calls |-> <<>>]
       ELSE PushTool(tool, c.out), LAMBDA t :
  LET ev == [e EXCEPT !.content = t.out, !.reason = r.out, !.calls = t.calls]
  IN [filter |-> r.f, tool |-> t.p, events |-> IfWorth(ev)])))

(* What the parsers gave back late carries no downloader. *)
Late(t) == Event(t.out, <<>>, t.calls, FALSE)

(* flushStreamParsers and the finish event. *)
Flushed(filter, tool) ==
  Bind(PushTool(tool, FlushFilter(filter)), LAMBDA t :
  Bind(FlushTool(t.p), LAMBDA u :
  IfWorth(Late(t)) \o IfWorth(Late(u)) \o <<FinishEvent>>))

CutsCard(p) == p.in /\ p.part = <<>> /\ Carry(p.buf, CardEnd) # <<>>

Receive ==
  /\ flow.pc = "receive" /\ ch # <<>> /\ Head(ch).kind = "event"
  /\ \E c \in {Consume(flow.filter, flow.tool, Head(ch))} :
     /\ flow' = [flow EXCEPT !.filter = c.filter, !.tool = c.tool, !.queue = c.events,
                             !.pc = IF c.events = <<>> THEN "receive" ELSE "send"]
     /\ excused' = (excused \/ CutsCard(c.filter.card))
  /\ ch' = Tail(ch)
  /\ UNCHANGED <<answer, src, out, outOpen, flowRest>>

ReceiveClosed ==
  /\ flow.pc = "receive" /\ ch = <<>> /\ src.pc = "closed"
  /\ flow' = [flow EXCEPT !.pc = "end", !.queue = Flushed(flow.filter, flow.tool)]
  /\ UNCHANGED <<answer, src, ch, out, outOpen, excused, flowRest>>

GiveUp == flow' = [flow EXCEPT !.pc = "end", !.queue = <<ErrorEvent>>]

(* The next attempt is a new stream, with new parsers.  What the broken    *)
(* one gave has been sent on and stays sent.  The upstream says the same   *)
(* again, in other pieces.                                                 *)
Retry ==
  /\ flow.try < MaxTries
  /\ src' = [pc |-> "run", parts |-> answer]
  /\ flow' = [flow EXCEPT !.try = @ + 1, !.filter = FreshFilter, !.tool = Fresh]
  /\ excused' = (excused \/ got.text # <<>> \/ got.calls # <<>> \/ out # <<>> \/ wr.gate # <<>>
                         \/ wr.tool # Fresh)

ReceiveError ==
  /\ flow.pc = "receive" /\ ch # <<>> /\ Head(ch).kind = "error"
  /\ ch' = <<>>
  /\ \/ Retry
     \/ GiveUp /\ UNCHANGED <<src, excused>>
  /\ UNCHANGED <<answer, out, outOpen, flowRest>>

ReceiveCancel ==
  /\ flow.pc = "receive" /\ Cancelled
  /\ GiveUp
  /\ UNCHANGED <<answer, src, ch, out, outOpen, excused, flowRest>>

(* A send on out waits for room, whatever the context says. *)
Send ==
  /\ flow.pc \in {"send", "end"} /\ flow.queue # <<>> /\ Len(out) < OutCap
  /\ out' = Append(out, Head(flow.queue))
  /\ flow' = [flow EXCEPT !.queue = Tail(@),
                          !.pc = IF @ = "send" /\ Len(flow.queue) = 1 THEN "receive" ELSE @]
  /\ UNCHANGED <<answer, src, ch, outOpen, excused, flowRest>>

(* Mutant: out stays open. *)
FlowEndsSilently ==
  /\ flow.pc = "end" /\ flow.queue = <<>>
  /\ flow' = [flow EXCEPT !.pc = "done"]
  /\ UNCHANGED <<answer, src, ch, out, outOpen, excused, flowRest>>

FlowEnds ==
  /\ flow.pc = "end" /\ flow.queue = <<>>
  /\ flow' = [flow EXCEPT !.pc = "done"]
  /\ outOpen' = FALSE
  /\ UNCHANGED <<answer, src, ch, out, excused, flowRest>>

-----------------------------------------------------------------------------
(* The response. *)

wrRest == <<req, answer, src, ch, flow, outOpen, left, excused>>

(* formatToolCallsAsText prints the arguments too. *)
CallText(call) == ToolStart \o <<"call">> \o (IF call.link THEN Link ELSE <<>>) \o ToolEnd

(* One event through the adapter (or the collector): its texts in order,   *)
(* its calls, and the parsers after it.                                    *)
Adapt(tool, open, e) ==
  Bind(IF req.tools /\ e.content # <<>> THEN PushTool(tool, e.content)
       ELSE [p |-> tool, out |-> e.content, calls |-> <<>>], LAMBDA p :
  LET r == HandleReasoning(req.think, open, e.reason)
      t == HandleText(r.open, p.out)
      c == HandleText(t.open, IF req.tools THEN <<>>
                              ELSE FlattenSeq([i \in DOMAIN e.calls |-> CallText(e.calls[i])]))
  IN [tool |-> p.p, open |-> c.open, texts |-> <<r.out, t.out \o c.out>>,
      calls |-> IF req.tools THEN p.calls \o e.calls ELSE <<>>])

(* The gate lets through what can no longer become a reference. *)
PushGate(gate, rw, works, text) ==
  Bind(gate \o text, LAMBDA pending :
  Bind(StreamingSafeFlushIndex(pending), LAMBDA cut :
  Bind(RewriteContent(rw, works, SubSeq(pending, 1, cut)), LAMBDA w :
  [ok |-> w.ok, out |-> w.out,
   gate |-> IF w.ok THEN SubSeq(pending, cut + 1, Len(pending)) ELSE pending])))

Rewriting(e) == wr.rw \/ (e.dl /\ Media)

(* streamResponseState.handleEvent: a failed rewrite ends the response. *)
StreamEvent(e) ==
  \E works \in BOOLEAN, a \in {Adapt(wr.tool, wr.open, e)}, rw \in {Rewriting(e)} :
  \E g1 \in {PushGate(wr.gate, rw, works, a.texts[1])} :
  \E g2 \in {PushGate(g1.gate, rw, works, a.texts[2])} :
    LET ok == g1.ok /\ g2.ok
    IN /\ wr' = [wr EXCEPT !.pc = IF ok THEN "read" ELSE "gone", !.tool = a.tool,
                           !.open = a.open, !.gate = g2.gate, !.rw = rw,
                           !.seen = @ \/ a.calls # <<>>]
       /\ got' = IF ok THEN [got EXCEPT !.text = @ \o g1.out \o g2.out, !.calls = @ \o a.calls]
                 ELSE [got EXCEPT !.text = IF g1.ok THEN @ \o g1.out ELSE @, !.end = "error"]

(* chatResponseCollector.AddEvent. *)
CollectEvent(e) ==
  \E a \in {Adapt(wr.tool, wr.open, e)} :
     /\ wr' = [wr EXCEPT !.tool = a.tool, !.open = a.open, !.rw = Rewriting(e)]
     /\ got' = [got EXCEPT !.text = @ \o a.texts[1] \o a.texts[2], !.calls = @ \o a.calls]

(* A collected answer that fails is dropped. *)
Failed == [text |-> <<>>, calls |-> <<>>, end |-> "error"]

Take == wr.pc = "read" /\ out # <<>> /\ out' = Tail(out)

(* The finish event has no text and changes nothing here. *)
WriteEvent ==
  /\ Take /\ Head(out).kind # "error"
  /\ IF req.stream THEN StreamEvent(Head(out)) ELSE CollectEvent(Head(out))
  /\ UNCHANGED wrRest

WriteError ==
  /\ Take /\ Head(out).kind = "error"
  /\ wr' = [wr EXCEPT !.pc = "gone"]
  /\ got' = IF req.stream THEN [got EXCEPT !.end = "error"] ELSE Failed
  /\ UNCHANGED wrRest

Finish(calls) == IF calls THEN "tool_calls" ELSE "stop"

(* streamResponseState.finish: the gate, the open think block, the reason. *)
FinishStream ==
  \E works \in BOOLEAN :
    LET w == RewriteContent(wr.rw, works, wr.gate)
    IN got' = IF w.ok THEN [got EXCEPT !.text = @ \o w.out \o CloseThink(wr.open),
                                       !.end = Finish(wr.seen)]
              ELSE [got EXCEPT !.end = "error"]

(* chatResponseCollector.Build and rewriteBlockingContent. *)
FinishCollected ==
  \E works \in BOOLEAN :
    LET f == IF req.tools THEN FlushTool(wr.tool) ELSE [out |-> <<>>, calls |-> <<>>]
        t == HandleText(wr.open, f.out)
        w == RewriteContent(wr.rw, works, got.text \o t.out \o CloseThink(t.open))
        calls == got.calls \o f.calls
    IN got' = IF w.ok THEN [text |-> w.out, calls |-> calls, end |-> Finish(calls # <<>>)]
              ELSE Failed

WriteFinish ==
  /\ wr.pc = "read" /\ out = <<>> /\ ~outOpen
  /\ IF req.stream THEN FinishStream ELSE FinishCollected
  /\ wr' = [wr EXCEPT !.pc = "done"]
  /\ UNCHANGED <<out, wrRest>>

(* Only the streaming response watches the context. *)
WriterLeaves ==
  /\ wr.pc = "read" /\ req.stream /\ left
  /\ wr' = [wr EXCEPT !.pc = "gone"]
  /\ UNCHANGED <<out, got, wrRest>>

ClientLeaves ==
  /\ ~left /\ wr.pc = "read"
  /\ left' = TRUE
  /\ UNCHANGED <<req, answer, src, ch, flow, out, outOpen, wr, got, excused>>

-----------------------------------------------------------------------------
Reader == Produce \/ Eof
Consumer == Receive \/ ReceiveClosed \/ ReceiveError \/ ReceiveCancel \/ Send \/ FlowEnds
Writer == WriteEvent \/ WriteError \/ WriteFinish \/ WriterLeaves

Next == Reader \/ Break \/ Consumer \/ Writer \/ ClientLeaves

(* An upstream that goes on, and goroutines that run.  The upstream need   *)
(* not break and the client need not leave.                                *)
Spec == PipeInit /\ [][Next]_pipeVars /\ WF_pipeVars(Reader) /\ WF_pipeVars(Consumer)
                 /\ WF_pipeVars(Writer)

-----------------------------------------------------------------------------
(* The answer as if each of its parts had come in one piece. *)

PartEvent(part) ==
  IF part.think THEN Event(<<>>, part.text, <<>>, TRUE) ELSE Event(part.text, <<>>, <<>>, TRUE)

RenderedEvents ==
  Bind( Scanning(LAMBDA acc, part :
                   Bind(Consume(acc.filter, acc.tool, PartEvent(part)), LAMBDA c :
                     [c EXCEPT !.events = acc.events \o @]),
                 [filter |-> FreshFilter, tool |-> Fresh, events |-> <<>>], answer),
       LAMBDA consumed : consumed.events \o Flushed(consumed.filter, consumed.tool))

Rendered ==
  Bind( Scanning(LAMBDA acc, e :
                   Bind(Adapt(acc.tool, acc.open, e), LAMBDA a :
                     [tool |-> a.tool, open |-> a.open, calls |-> acc.calls \o a.calls,
                      text |-> acc.text \o a.texts[1] \o a.texts[2]]),
                 [tool |-> Fresh, open |-> FALSE, text |-> <<>>, calls |-> <<>>],
                 RenderedEvents), LAMBDA adapted :
  LET f == FlushTool(adapted.tool)
      t == HandleText(adapted.open, f.out)
  IN [text |-> adapted.text \o t.out \o CloseThink(t.open), calls |-> adapted.calls \o f.calls])

Finished == got.end \in {"stop", "tool_calls"}

(* Text the streaming response never sends: its parser is not flushed.     *)
Held == IF req.stream /\ req.tools THEN FlushTool(wr.tool).out ELSE <<>>

-----------------------------------------------------------------------------
(* The shape of the state. *)
PipeTypeOK ==
  /\ req \in Requests /\ answer \in Answers
  /\ src.pc \in {"run", "closed"}
  /\ Len(ch) <= ChCap /\ Len(out) <= OutCap
  /\ flow.pc \in {"receive", "send", "end", "done"} /\ flow.try \in 1..MaxTries
  /\ wr.pc \in {"read", "gone", "done"}
  /\ Range(got.text) \subseteq Symbols /\ Range(got.calls) \subseteq Calls
  /\ got.end \in {"none", "stop", "tool_calls", "error"}

Count(text, s) == Cardinality({i \in DOMAIN text : text[i] = s})

SameText(a, b) ==
  IF req.tools THEN a = b ELSE \A s \in Symbols : Count(a, s) = Count(b, s)

(* Wherever the upstream's chunks end, inside a tag or an image or between *)
(* two, a client that asked for a stream and one that did not get the text *)
(* and the calls of the whole answer.  Excused are the text the response's *)
(* own parser still holds at the end of a stream (it is never flushed), a  *)
(* chunk that ends inside a card's end tag while the card is still open in *)
(* the same chunk (the end tag is then missed), and a repeated attempt.    *)
(* Without tools a call is text again, after the text of its chunk: then   *)
(* only the symbols are compared.                                          *)
ChunkingIrrelevant ==
  Finished /\ ~excused =>
    \E whole \in {Rendered} :
      /\ SameText(Rewritten(got.text \o Held), Rewritten(whole.text))
      /\ got.calls = whole.calls

Depth(text, i) ==
  Cardinality({j \in 1..i : text[j] = "[think]"})
    - Cardinality({j \in 1..i : text[j] = "[/think]"})

(* What ThinkBlocks takes of an answer: nobody but the think writer writes *)
(* its tags, and words "x" and images are content.                         *)
Labelled ==
  \A a \in Answers : \A i \in DOMAIN a :
    Range(a[i].text) \cap
      (IF a[i].think THEN {"x", "![", "img)", "[think]", "[/think]"} ELSE {"[think]", "[/think]"})
      = {}

(* Think blocks do not nest, no content is inside one, and a finished      *)
(* answer leaves none open: also when attempts repeat, images are replaced *)
(* and calls, held text and errors come in between.                        *)
ThinkBlocks ==
  /\ \A i \in DOMAIN got.text :
       /\ Depth(got.text, i) \in {0, 1}
       /\ got.text[i] = "x" => Depth(got.text, i) = 0
  /\ Finished => Depth(got.text, Len(got.text)) = 0

(* The reason that ends an answer says whether the client got a call.      *)
EndNamesCalls == Finished => ((got.end = "tool_calls") <=> (got.calls # <<>>))

(* The shape of the state, the blocks of the text and the reason.          *)
PipeInv == PipeTypeOK /\ ThinkBlocks /\ EndNamesCalls

(* Of an answer that writes its tags in one piece: the calls of one        *)
(* attempt are numbered 0, 1, ... in the order the client gets them, those *)
(* that a chunk closes and the one that the end of the stream closes, and  *)
(* no reasoning is outside a think block.                                  *)
TagsInOrder ==
  /\ ~excused => \A i \in DOMAIN got.calls : got.calls[i].index = i - 1
  /\ \A i \in DOMAIN got.text : got.text[i] = "r" => Depth(got.text, i) = 1

Delivered(g) == IF req.stream \/ g.end # "none" THEN g.text ELSE <<>>

(* Once the response has a downloader, its text gets no more references to *)
(* the upstream's images, in whatever pieces an image or a link comes and  *)
(* however much of it has been sent by then.  This is of the text alone:   *)
(* the arguments of a call are sent as they are (guardChunk, and           *)
(* rewriteBlockingContent for a collected answer, look at content).        *)
TextIsRewritten ==
  [][wr.rw' => References(Delivered(got')) <= References(Delivered(got))]_pipeVars

(* README.md:48: no upstream URL reaches the client at all. *)
NoReferenceLeaks ==
  Media => References(Delivered(got)) = 0 /\ \A i \in DOMAIN got.calls : ~got.calls[i].link

(* The response ends, and the flow with it: unless a streaming response    *)
(* returned early (client gone, rewrite failed) and left the flow waiting  *)
(* for room in out.                                                        *)
PipeDrains ==
  <>(wr.pc # "read" /\ (flow.pc = "done" \/ (req.stream /\ wr.pc = "gone")))

=============================================================================
