------------------------------ MODULE TokenPipe ------------------------------
(***************************************************************************)
(* The way of an answer from the model to the page: _stream_response takes *)
(* the chunks of the model apart and leaves out <think>...</think>         *)
(* (agent.py:285-358), _sse frames each token (main.py:270-272), the       *)
(* network cuts the bytes anywhere, and streamChatQuery puts the frames    *)
(* together again (api.ts:135-163).                                        *)
(*                                                                         *)
(* A text is a sequence of symbols.  The tags are shortened to "<t>" and   *)
(* "</t>", with a proper prefix of each length that matters; "nl" is white *)
(* space and the character JSON escapes.  The two while loops are          *)
(* functions of the state in which a round begins.                         *)
(***************************************************************************)
EXTENDS Naturals, Sequences, SequencesExt

CONSTANTS Texts,      \* what the model may answer
          MaxChunk,   \* bound: symbols in a chunk of the model
          MaxCut      \* bound: symbols in a read of the page

VARIABLES text,       \* the whole answer (never changes)
          fed,        \* how much of it the model has sent
          think,      \* _in_think_block
          pending,    \* _pending
          wire,       \* written by the server, not yet read by the page
          buffer,     \* the page's buffer
          page        \* what the page shows
pipe == <<text, fed, think, pending, wire, buffer, page>>

Open == <<"<", "t", ">">>
Close == <<"<", "/", "t", ">">>
Symbols == {"<", "/", "t", ">", "a", "nl"}
Framed == Symbols \union {"data:", "\\n"}

ASSUME PipeAssumption ==
    Texts \subseteq Seq(Symbols) /\ MaxChunk \in Nat /\ MaxCut \in Nat

PipeTypeOK ==
    /\ text \in Seq(Symbols) /\ fed \in 0..Len(text)
    /\ think \in BOOLEAN /\ pending \in Seq(Symbols)
    /\ wire \in Seq(Framed) /\ buffer \in Seq(Framed)
    /\ page \in Seq(Symbols)

PipeInit ==
    /\ text \in Texts /\ fed = 0
    /\ think = FALSE /\ pending = <<>>
    /\ wire = <<>> /\ buffer = <<>> /\ page = <<>>

-----------------------------------------------------------------------------
(* Sequences. *)

From(s, i) == SubSeq(s, i, Len(s))
StartsAt(s, t, i) == IsPrefix(t, From(s, i))
Least(S) == CHOOSE i \in S : \A j \in S : i =< j

\* Where t begins in s for the first time, 0 if nowhere (str.find, plus one).
Find(s, t) ==
    LET at == {i \in 1..Len(s) : StartsAt(s, t, i)} IN IF at = {} THEN 0 ELSE Least(at)

\* How many symbols at the end of s may be the beginning of t.
PartialAtEnd(s, t) ==
    LET ends == {i \in 1..(Len(t) - 1) : i =< Len(s) /\ From(s, Len(s) - i + 1) = SubSeq(t, 1, i)}
    IN  IF ends = {} THEN 0 ELSE Least(ends)

Lstrip(s) == From(s, Least({i \in 1..(Len(s) + 1) : i = Len(s) + 1 \/ s[i] # "nl"}))

-----------------------------------------------------------------------------
(* The filter: the while loop over _pending; more is FALSE after a break. *)

Scan == [think : BOOLEAN, pending : Seq(Symbols), emit : Seq(Symbols), more : BOOLEAN]

\* Slip: in front of an opening tag that is cut the text is held back, but not the tag.
PassNoHold(f) ==
    LET tag == IF f.think THEN Close ELSE Open
        i == Find(f.pending, tag)
        n == IF f.think THEN PartialAtEnd(f.pending, tag) ELSE 0
        rest == Len(f.pending) - n
    IN  IF f.pending = <<>> THEN [f EXCEPT !.more = FALSE]
        ELSE IF i > 0
        THEN [think |-> ~f.think, pending |-> From(f.pending, i + Len(tag)), more |-> TRUE,
              emit |-> IF f.think THEN f.emit ELSE f.emit \o SubSeq(f.pending, 1, i - 1)]
        ELSE [think |-> f.think, more |-> FALSE,
              pending |-> IF f.think /\ n > 0 THEN f.pending ELSE From(f.pending, rest + 1),
              emit |-> IF f.think THEN f.emit ELSE f.emit \o SubSeq(f.pending, 1, rest)]

\* A round: up to the next tag, or up to what may be the beginning of one.
Pass(f) ==
    LET tag == IF f.think THEN Close ELSE Open
        i == Find(f.pending, tag)
        n == PartialAtEnd(f.pending, tag)
        rest == Len(f.pending) - n
    IN  IF f.pending = <<>> THEN [f EXCEPT !.more = FALSE]
        ELSE IF i > 0
        THEN [think |-> ~f.think, pending |-> From(f.pending, i + Len(tag)), more |-> TRUE,
              emit |-> IF f.think THEN f.emit ELSE f.emit \o SubSeq(f.pending, 1, i - 1)]
        ELSE [think |-> f.think, more |-> FALSE,
              pending |-> IF f.think /\ n > 0 THEN f.pending ELSE From(f.pending, rest + 1),
              emit |-> IF f.think THEN f.emit ELSE f.emit \o SubSeq(f.pending, 1, rest)]

Filter[f \in Scan] == IF f.more THEN Filter[Pass(f)] ELSE f

\* The first chunk loses leading white space if <think> follows it.
Take(chunk) ==
    LET stripped == Lstrip(chunk)
        opens == fed = 0 /\ StartsAt(stripped, Open, 1)
    IN  [think |-> think \/ opens, emit |-> <<>>, more |-> TRUE,
         pending |-> IF opens THEN From(stripped, Len(Open) + 1) ELSE pending \o chunk]

-----------------------------------------------------------------------------
(* The frames. *)

Blank == <<"nl", "nl">>

\* json.dumps leaves no line break in the data.
Json(s) == [i \in 1..Len(s) |-> IF s[i] = "nl" THEN "\\n" ELSE s[i]]
Parse(s) == [i \in 1..Len(s) |-> IF s[i] = "\\n" THEN "nl" ELSE s[i]]

Sse(s) == <<"data:">> \o Json(s) \o Blank

\* What the page shows for a frame.
Shown(frame) == IF frame # <<>> /\ Head(frame) = "data:" THEN Parse(Tail(frame)) ELSE <<>>

\* The while loop of the page over its buffer: the frames up to the last blank line.
Reader == [buffer : Seq(Framed), page : Seq(Framed)]
Frames[b \in Reader] ==
    LET sep == Find(b.buffer, Blank) IN
    IF sep = 0 THEN b
    ELSE Frames[[buffer |-> From(b.buffer, sep + 2),
                 page |-> b.page \o Shown(SubSeq(b.buffer, 1, sep - 1))]]

-----------------------------------------------------------------------------
(* The steps. *)

\* A chunk of the model; a token is sent if anything is left of it.
Chunk(n) ==
    /\ fed + n =< Len(text)
    /\ Len(wire) =< 2 * MaxCut
    /\ LET f == Filter[Take(SubSeq(text, fed + 1, fed + n))] IN
         /\ think' = f.think
         /\ pending' = f.pending
         /\ wire' = IF f.emit = <<>> THEN wire ELSE wire \o Sse(f.emit)
    /\ fed' = fed + n
    /\ UNCHANGED <<text, buffer, page>>

Read(n) ==
    /\ n =< Len(wire)
    /\ wire' = From(wire, n + 1)
    /\ LET b == Frames[[buffer |-> buffer \o SubSeq(wire, 1, n), page |-> page]] IN
         buffer' = b.buffer /\ page' = b.page
    /\ UNCHANGED <<text, fed, think, pending>>

PipeNext == \/ \E n \in 1..MaxChunk : Chunk(n)
            \/ \E n \in 1..MaxCut : Read(n)

PipeSpec == PipeInit /\ [][PipeNext]_pipe

-----------------------------------------------------------------------------
(* The text without its think blocks.  What looks like the beginning of a tag at the   *)
(* very end of the answer is not sent: nothing follows the loop that would send it.    *)
Visible[s \in Seq(Symbols)] ==
    LET i == Find(s, Open)
        rest == From(s, i + Len(Open))
        j == Find(rest, Close)
    IN  IF i = 0 THEN SubSeq(s, 1, Len(s) - PartialAtEnd(s, Open))
        ELSE IF j = 0 THEN SubSeq(s, 1, i - 1)
        ELSE SubSeq(s, 1, i - 1) \o Visible[From(rest, j + Len(Close))]

(* White space before a first <think> is kept or dropped, depending on the chunks.     *)
Answers == {Visible[text]} \union
           IF StartsAt(Lstrip(text), Open, 1) THEN {Visible[Lstrip(text)]} ELSE {}

(* The page shows a beginning of the answer without its think blocks, and all of it    *)
(* when everything has arrived: however the model cuts the answer into chunks, inside  *)
(* of a tag too, and however the network cuts the frames.                              *)
PageShowsAnswer ==
    /\ \E v \in Answers : IsPrefix(page, v)
    /\ fed = Len(text) /\ wire = <<>> => page \in Answers
=============================================================================
