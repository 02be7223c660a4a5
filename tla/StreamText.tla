----------------------------- MODULE StreamText -----------------------------
(***************************************************************************)
(* The parsers an answer's text goes through, chunk by chunk: the card     *)
(* and tag filters and the tool-call parser of the flow                    *)
(* (flow/tool_usage_card.go, tag_filter.go, toolcall_stream.go), the       *)
(* tool-call parser and the think writer of the response                   *)
(* (openai/chat_toolcall.go, chat_think.go), and the gate that rewrites    *)
(* images (openai/stream_media_gate.go, media_rewrite.go).                 *)
(*                                                                         *)
(* A text is a sequence of symbols.  A tag is two symbols, the first of    *)
(* which also begins other tags, so that a chunk can end inside a tag.     *)
(* "call" is a payload that parses as an allowed call, "![" ... "img)" a   *)
(* Markdown image of the upstream, and a bare link to one is three         *)
(* symbols: its scheme can be cut in two, and the rest may come later.     *)
(* Of all symbols, only those three contain no delimiter of a link.        *)
(***************************************************************************)
EXTENDS Integers, Sequences, SequencesExt, FiniteSets

ToolStart == <<"<", "tool>">>
ToolEnd == <<"<", "/tool>">>
CardStart == <<"<", "card">>
CardEnd == <<"<", "/card>">>
DropStart == <<"<", "drop">>
DropEnd == <<"<", "/drop>">>
ThinkOpen == <<"[think]">>
ThinkClose == <<"[/think]">>
Scheme == <<"ht", "tps://">>
Link == <<"ht", "tps://", "grok">>

Symbols == {"x", "r", "<", ">", "tool>", "/tool>", "card", "/card>", "drop", "/drop>",
            "call", "line", "[think]", "[/think]", "![", "img)", "pic",
            "ht", "tps://", "grok"}

Delimiters == Symbols \ {"ht", "tps://", "grok"}

(* strings.Index, 0 when the tag is not there. *)
Index(data, tag) ==
  LET at == {i \in 1..(Len(data) - Len(tag) + 1) :
               SubSeq(data, i, i + Len(tag) - 1) = tag}
  IN IF at = {} THEN 0 ELSE Min(at)

Before(data, i) == SubSeq(data, 1, i - 1)
After(data, i, tag) == SubSeq(data, i + Len(tag), Len(data))

(* The longest end of the text that may be the beginning of the tag. *)
SuffixPrefixLength(data, tag) ==
  Max({0} \cup {n \in 1..(Len(tag) - 1) : IsSuffix(SubSeq(tag, 1, n), data)})

Clean(data, tag) == SubSeq(data, 1, Len(data) - SuffixPrefixLength(data, tag))
Carry(data, tag) ==
  SubSeq(data, Len(data) - SuffixPrefixLength(data, tag) + 1, Len(data))

(* Where the text has a link to an image of the upstream. *)
Links(text) == {i \in 1..(Len(text) - 2) : SubSeq(text, i, i + 2) = Link}

(* Op(v), with v evaluated once: TLC would evaluate a LET at every use. *)
Bind(v, Op(_)) == CHOOSE r \in {Op(x) : x \in {v}} : TRUE

(* The symbols of a text one after the other. *)
Scanning(Step(_, _), base, text) ==
  LET f[n \in 0..Len(text)] ==
        IF n = 0 THEN base ELSE Bind(f[n - 1], LAMBDA acc : Step(acc, text[n]))
  IN f[Len(text)]

(* A parser's loop: every round takes at least one symbol off the data.    *)
(* A round's argument is [p, data, out, calls].                            *)
Loop(Round(_), p, chunk) ==
  Bind([p |-> [p EXCEPT !.part = <<>>], data |-> p.part \o chunk,
        out |-> <<>>, calls |-> <<>>],
       LAMBDA base :
         Scanning(LAMBDA acc, s : IF acc.data = <<>> THEN acc ELSE Round(acc),
                  base, base.data))

Fresh == [in |-> FALSE, part |-> <<>>, buf |-> <<>>, next |-> 0]

-----------------------------------------------------------------------------
(* Tool calls.  Both parsers of the code are this one. *)

(* The payload, trimmed and repaired, is one JSON object with an allowed name. *)
ParseToolCallBlock(raw) == Cardinality({i \in DOMAIN raw : raw[i] = "call"}) = 1

(* A call, and whether its arguments hold a link: nothing looks into them. *)
Calls == [index : Nat, link : BOOLEAN]
CallOf(n, raw) == [index |-> n, link |-> Links(raw) # {}]

ToolText(acc) ==
  LET i == Index(acc.data, ToolStart)
  IN IF i = 0
     THEN [acc EXCEPT !.out = @ \o Clean(acc.data, ToolStart),
                      !.p.part = Carry(acc.data, ToolStart), !.data = <<>>]
     ELSE [acc EXCEPT !.out = @ \o Before(acc.data, i),
                      !.p.in = TRUE, !.data = After(acc.data, i, ToolStart)]

ToolBlock(acc) ==
  LET i == Index(acc.data, ToolEnd)
      raw == acc.p.buf \o Before(acc.data, i)
      closed == [acc EXCEPT !.p.buf = <<>>, !.p.in = FALSE,
                            !.data = After(acc.data, i, ToolEnd)]
  IN IF i = 0
     THEN [acc EXCEPT !.p.buf = @ \o Clean(acc.data, ToolEnd),
                      !.p.part = Carry(acc.data, ToolEnd), !.data = <<>>]
     ELSE IF ParseToolCallBlock(raw)
     THEN [closed EXCEPT !.calls = Append(@, CallOf(acc.p.next, raw)), !.p.next = @ + 1]
     ELSE IF raw = <<>> THEN closed
     ELSE [closed EXCEPT !.out = @ \o ToolStart \o raw \o ToolEnd]

PushTool(p, chunk) ==
  Loop(LAMBDA acc : IF acc.p.in THEN ToolBlock(acc) ELSE ToolText(acc), p, chunk)

(* Mutant: a call that the end of the stream closes is number 0. *)
FlushToolFromZero(p) ==
  LET raw == p.buf \o p.part
      text == IF ~p.in THEN p.part ELSE IF raw = <<>> THEN <<>> ELSE ToolStart \o raw
  IN IF p.in /\ ParseToolCallBlock(raw)
     THEN [p |-> Fresh, out |-> <<>>, calls |-> <<CallOf(0, raw)>>]
     ELSE [p |-> Fresh, out |-> text, calls |-> <<>>]

FlushTool(p) ==
  LET raw == p.buf \o p.part
      reset == [p EXCEPT !.in = FALSE, !.buf = <<>>, !.part = <<>>]
  IN IF ~p.in THEN [p |-> reset, out |-> p.part, calls |-> <<>>]
     ELSE IF ParseToolCallBlock(raw)
     THEN [p |-> [reset EXCEPT !.next = @ + 1], out |-> <<>>,
           calls |-> <<CallOf(p.next, raw)>>]
     ELSE [p |-> reset, out |-> IF raw = <<>> THEN <<>> ELSE ToolStart \o raw, calls |-> <<>>]

-----------------------------------------------------------------------------
(* Tool usage cards become a line of text, filtered tags disappear. *)

CardBlock(acc) ==
  LET i == Index(acc.data, CardEnd)
  IN IF i = 0
     THEN [acc EXCEPT !.p.buf = @ \o Clean(acc.data, CardEnd),
                      !.p.part = Carry(acc.data, CardEnd), !.data = <<>>]
     ELSE [acc EXCEPT !.out = Append(@, "line"), !.p.in = FALSE, !.p.buf = <<>>,
                      !.data = After(acc.data, i, CardEnd)]

(* A card that does not end in its first chunk is buffered whole, with what *)
(* may be the beginning of its end tag.                                     *)
CardText(acc) ==
  LET i == Index(acc.data, CardStart)
      card == SubSeq(acc.data, i, Len(acc.data))
      j == Index(card, CardEnd)
  IN IF i = 0
     THEN [acc EXCEPT !.out = @ \o Clean(acc.data, CardStart),
                      !.p.part = Carry(acc.data, CardStart), !.data = <<>>]
     ELSE IF j = 0
     THEN [acc EXCEPT !.out = @ \o Before(acc.data, i),
                      !.p.in = TRUE, !.p.buf = @ \o card, !.data = <<>>]
     ELSE [acc EXCEPT !.out = Append(@ \o Before(acc.data, i), "line"),
                      !.data = After(card, j, CardEnd)]

PushCard(p, chunk) ==
  Loop(LAMBDA acc : IF acc.p.in THEN CardBlock(acc) ELSE CardText(acc), p, chunk)

FlushCard(p) ==
  [p |-> Fresh, out |-> IF p.in THEN <<>> ELSE p.part]

DropBlock(acc) ==
  LET i == Index(acc.data, DropEnd)
  IN IF i = 0
     THEN [acc EXCEPT !.p.part = Carry(acc.data, DropEnd), !.data = <<>>]
     ELSE [acc EXCEPT !.p.in = FALSE, !.data = After(acc.data, i, DropEnd)]

DropText(acc) ==
  LET i == Index(acc.data, DropStart)
      tag == SubSeq(acc.data, i, Len(acc.data))
      j == Index(tag, <<">">>)
  IN IF i = 0
     THEN [acc EXCEPT !.out = @ \o Clean(acc.data, DropStart),
                      !.p.part = Carry(acc.data, DropStart), !.data = <<>>]
     ELSE IF j = 0
     THEN [acc EXCEPT !.out = @ \o Before(acc.data, i), !.p.part = tag, !.data = <<>>]
     ELSE [acc EXCEPT !.out = @ \o Before(acc.data, i), !.p.in = TRUE,
                      !.data = After(tag, j, <<">">>)]

(* Mutant: what a chunk left over is not put in front of the next one. *)
PushDropForgetsPart(p, chunk) ==
  Loop(LAMBDA acc : IF acc.p.in THEN DropBlock(acc) ELSE DropText(acc),
       [p EXCEPT !.part = <<>>], chunk)

PushDrop(p, chunk) ==
  Loop(LAMBDA acc : IF acc.p.in THEN DropBlock(acc) ELSE DropText(acc), p, chunk)

FlushDrop(p) ==
  [p |-> Fresh, out |-> IF p.in THEN <<>> ELSE p.part]

(* streamTokenFilter: the card parser, then the dropped tag.  The content  *)
(* and the reasoning of a stream go through the same parsers.              *)
FreshFilter == [card |-> Fresh, drop |-> Fresh]

FlushFilter(f) ==
  Bind(PushDrop(f.drop, FlushCard(f.card).out), LAMBDA d : d.out \o FlushDrop(d.p).out)

-----------------------------------------------------------------------------
(* The think writer: [open] says whether a think block is open. *)

(* Mutant: text does not close the block. *)
HandleTextInside(open, text) == [open |-> open, out |-> text]

HandleReasoning(show, open, text) ==
  IF ~show \/ text = <<>> THEN [open |-> open, out |-> <<>>]
  ELSE [open |-> TRUE, out |-> (IF open THEN <<>> ELSE ThinkOpen) \o text]

HandleText(open, text) ==
  IF text = <<>> THEN [open |-> open, out |-> <<>>]
  ELSE [open |-> FALSE, out |-> (IF open THEN ThinkClose ELSE <<>>) \o text]

CloseThink(open) == IF open THEN ThinkClose ELSE <<>>

-----------------------------------------------------------------------------
(* Images.  Scan splits a text into what is settled, with its images       *)
(* replaced, and an image that has begun and not ended.                    *)

Scan(text) ==
  Scanning(LAMBDA acc, s :
             IF acc.held = <<>>
             THEN IF s = "![" THEN [acc EXCEPT !.held = <<s>>]
                  ELSE [acc EXCEPT !.done = Append(@, s)]
             ELSE IF s = "img)"
             THEN [done |-> Append(acc.done, "pic"), held |-> <<>>, images |-> acc.images + 1]
             ELSE [acc EXCEPT !.held = Append(@, s)],
           [done |-> <<>>, held |-> <<>>, images |-> 0], text)

HasImage(text) == Scan(text).images > 0
Rewritten(text) == Scan(text).done \o Scan(text).held

(* activeDelimitedStart: the links, to the upstream or to anywhere else,   *)
(* that have begun and have no delimiter after them.                       *)
ActiveLinks(text) ==
  {i \in 1..(Len(text) - 1) : /\ SubSeq(text, i, i + 1) = Scheme
                             /\ \A j \in i..Len(text) : text[j] \notin Delimiters}

(* What may still become a reference: an image that has not ended, a link  *)
(* that may go on, and at the end of the text half a scheme.               *)
ImageHold(text) == Len(text) - Len(Scan(text).held)
LinkHold(text) == Min({i - 1 : i \in ActiveLinks(text)} \cup {Len(text)})
PartialHold(text) == Len(text) - SuffixPrefixLength(text, Scheme)

(* Mutant: a scheme that the chunk cuts in two is not waited for. *)
FlushHalfSchemes(text) == Min({ImageHold(text), LinkHold(text)})

(* The gate keeps it. *)
StreamingSafeFlushIndex(text) == Min({ImageHold(text), LinkHold(text), PartialHold(text)})

(* The upstream's references in a text. *)
References(text) == Scan(text).images + Cardinality(Links(text))

(* rewriteContent: without a rewriter the text is left as it is; with one  *)
(* every image is downloaded, and a link that remains is an error.         *)
RewriteContent(on, works, text) ==
  Bind(text, LAMBDA t :
    IF ~on THEN [ok |-> TRUE, out |-> t]
    ELSE IF (HasImage(t) /\ ~works) \/ Links(Rewritten(t)) # {}
    THEN [ok |-> FALSE, out |-> <<>>]
    ELSE [ok |-> TRUE, out |-> Rewritten(t)])

=============================================================================
