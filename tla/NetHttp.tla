------------------------------- MODULE NetHttp -------------------------------
(***************************************************************************)
(* The HTTP side of a session: the parser that cuts requests out of what    *)
(* is read, chunk by chunk, on the session's thread, and the main loop that *)
(* hands them to the handlers of their paths.                               *)
(*                                                                         *)
(* The stream is a sequence of symbols: a request line, the header          *)
(* Content-Length, a symbol of a body, "CR" and "LF". A line is one symbol  *)
(* long unless the parser glues lines together.                             *)
(***************************************************************************)
EXTENDS Integers, Sequences, SequencesExt, FiniteSetsExt

CONSTANTS Paths,            \* paths, each a sequence of characters
          Registered,       \* m_mapPackethandle: paths that have a handler
          HasDefault,       \* whether there is a default handler
          MaxBody,          \* bound: length of a body
          MaxRequests,      \* bound: requests a client sends
          MaxSize           \* k_http_max_size

(***************************************************************************)
(* The symbols, and a request as a client writes it.                        *)
(***************************************************************************)
StartLine(path) == [kind |-> "start", path |-> path]
LengthHeader(n) == [kind |-> "length", n |-> n]
BodySymbol == [kind |-> "body"]
CR == [kind |-> "CR"]
LF == [kind |-> "LF"]
Crlf == <<CR, LF>>

NoBody == -1
Requests == [path : Paths, body : NoBody..MaxBody]
Encode(r) ==
    <<StartLine(r.path)>> \o Crlf
        \o (IF r.body = NoBody THEN <<>> ELSE <<LengthHeader(r.body)>> \o Crlf)
        \o Crlf \o [i \in 1..r.body |-> BodySymbol]

VARIABLES sent,         \* how many requests the client has sent
          stream,       \* what of them has not arrived
          chunk,        \* what ReadData was called with, <<>> when it has returned
          left,         \* how much of the chunk is in the buffer
          parser,       \* the session's RequestParser
          queue,        \* m_vecMsgFunction
          handled,      \* requests handled, each with the path of its handler
          replies,      \* status codes the module itself has sent
          open,         \* whether the session is open
          overrun       \* RemoveData was told to remove more than there is

vars == <<sent, stream, chunk, left, parser, queue, handled, replies, open, overrun>>
-----------------------------------------------------------------------------
(* RequestParser                                                           *)

\* The fields of a parser, as Reset leaves them: m_req.path, the value of the
\* header Content-Length, the length of m_req.content, m_readingLine and
\* m_readLength.
Reset == [state |-> "method_uri_version", path |-> <<>>, length |-> NoBody,
          content |-> 0, line |-> <<>>, read |-> 0]

OnReadBody(p) == p.state = "http_context"
OnDone(p) == p.state = "end"

\* A request line ends with the version, whatever is glued to its front. A
\* header's name is what its line begins with, and the first of a name counts.
GoodLine(p, line) ==
    p.state = "method_uri_version" => line # <<>> /\ Last(line).kind = "start"
ParseLine(p, line) ==
    CASE p.state = "method_uri_version" ->
            [p EXCEPT !.state = "http_header", !.path = Last(line).path]
      [] line = <<>> ->
            [p EXCEPT !.state = IF p.length = NoBody THEN "end" ELSE "http_context"]
      [] OTHER ->
            [p EXCEPT !.length = IF @ = NoBody /\ line[1].kind = "length" THEN line[1].n ELSE @]

\* The places at which "\r\n" begins.
Ends(s) == {i \in 1..(Len(s) - 1) : SubSeq(s, i, i + 1) = Crlf}

\* The loop of Parse over the lines of s; m_readingLine, what was left of the
\* chunk before, goes before the first of them.
RECURSIVE ParseLines(_, _)
ParseLines(p, s) ==
    IF OnDone(p) \/ OnReadBody(p) \/ Ends(s) = {}
    THEN [bad |-> FALSE, parser |-> p, rest |-> s]
    ELSE LET pos  == Min(Ends(s))
             line == p.line \o SubSeq(s, 1, pos - 1)
         IN  IF GoodLine(p, line)
             THEN ParseLines([ParseLine(p, line) EXCEPT !.line = <<>>], SubSeq(s, pos + 2, Len(s)))
             ELSE [bad |-> TRUE, parser |-> p, rest |-> SubSeq(s, pos, Len(s))]

\* ParseBody takes what is needed of s. need is what is missing after it.
ParseBody(p, s) ==
    LET missing == p.length - p.content IN
    IF Len(s) >= missing
    THEN [parser |-> [p EXCEPT !.content = p.length, !.state = "end"], need |-> 0]
    ELSE [parser |-> [p EXCEPT !.content = @ + Len(s)], need |-> missing - Len(s)]

\* What is left to look at after the lines and the body: a body that is
\* complete is not cut off, one that is not is cut by what is still missing.
AfterBody(p, s) ==
    IF ~OnReadBody(p) THEN [parser |-> p, rest |-> s, wait |-> FALSE]
    ELSE LET b == ParseBody(p, s) IN
         [parser |-> b.parser, rest |-> SubSeq(s, b.need + 1, Len(s)),
          wait |-> b.need >= Len(s)]

\* Parse: the result, the parser after it and how much of the data was read.
Parse(p, data) ==
    LET readable == Min({Len(data), MaxSize - p.read})
        l        == ParseLines(p, SubSeq(data, 1, readable))
        b        == AfterBody(l.parser, l.rest)
        used     == readable - Len(b.rest)
        All(q)   == [result |-> "indeterminate", len |-> readable,
                     parser |-> [q EXCEPT !.read = @ + readable]]
    IN  CASE p.read >= MaxSize -> [result |-> "bad", len |-> Len(data), parser |-> p]
          [] l.bad             -> [result |-> "bad", len |-> readable - Len(l.rest), parser |-> p]
          [] b.wait            -> All(b.parser)
          [] OnDone(b.parser)  -> [result |-> "good", len |-> used,
                                   parser |-> [b.parser EXCEPT !.read = @ + used]]
          [] OTHER             -> All([b.parser EXCEPT !.line = @ \o b.rest])
-----------------------------------------------------------------------------
(* The client, and ReadData on the session's thread                        *)

Init ==
    /\ sent = 0 /\ stream = <<>>
    /\ chunk = <<>> /\ left = 0
    /\ parser = Reset
    /\ queue = <<>> /\ handled = <<>> /\ replies = <<>>
    /\ open = TRUE
    /\ overrun = FALSE

ClientSends(r) ==
    /\ open /\ sent < MaxRequests
    /\ sent' = sent + 1
    /\ stream' = stream \o Encode(r)
    /\ UNCHANGED <<chunk, left, parser, queue, handled, replies, open, overrun>>

\* A read of n symbols: ReadData is called, with nothing else in the buffer.
Arrive(n) ==
    /\ open /\ left = 0
    /\ chunk' = SubSeq(stream, 1, n)
    /\ left' = n
    /\ stream' = SubSeq(stream, n + 1, Len(stream))
    /\ UNCHANGED <<sent, parser, queue, handled, replies, open, overrun>>

\* RemoveData: an assertion, and without it no more than there is.
RemoveData(len) ==
    /\ overrun' = (overrun \/ len > left)
    /\ left' = left - Min({len, left})

\* A reply is posted to the session's loop if the main loop's map has the session.
WriteData(status) == replies' = IF open THEN Append(replies, status) ELSE replies

\* One pass of ReadData's loop. The pointer and the size were taken before the
\* loop, so every pass is given the whole chunk.
ReadDataBad ==
    /\ left > 0
    /\ Parse(parser, chunk).result = "bad"
    /\ WriteData("bad_request")
    /\ open' = FALSE
    /\ left' = 0
    /\ UNCHANGED <<sent, stream, chunk, parser, queue, handled, overrun>>

ReadData ==
    LET r == Parse(parser, chunk) IN
    /\ left > 0
    /\ r.result # "bad"
    /\ IF r.result = "good"
       THEN /\ queue' = Append(queue, r.parser.path)
            /\ parser' = Reset
       ELSE /\ parser' = r.parser
            /\ UNCHANGED queue
    /\ RemoveData(r.len)
    /\ UNCHANGED <<sent, stream, chunk, handled, replies, open>>

\* The peer, the read timeout or an error ends the session.
Close ==
    /\ open /\ left = 0
    /\ open' = FALSE
    /\ UNCHANGED <<sent, stream, chunk, left, parser, queue, handled, replies, overrun>>
-----------------------------------------------------------------------------
(* The main loop                                                           *)

\* The prefixes that ReadHttpPacket looks up from the longest on, by their
\* length: they end with a slash, or are empty when no slash is left. The
\* search is given up after a slash at one of the first two places.
Tried(path) ==
    LET slashes == {i \in 1..Len(path) : path[i] = "/"}
    IN  {p \in slashes \cup {0} : \A q \in slashes : q > p => q > 2}

\* The handlers a path may go to: its own, else that of its longest prefix.
HandlerOf(path) ==
    LET found == {p \in Tried(path) : SubSeq(path, 1, p) \in Registered}
    IN  IF path \in Registered THEN {path}
        ELSE IF found = {} THEN {} ELSE {SubSeq(path, 1, Max(found))}

\* OnUpdate runs the closures; each one is a ReadHttpPacket.
ReadHttpPacket ==
    LET path == Head(queue) IN
    /\ queue # <<>>
    /\ queue' = Tail(queue)
    /\ IF HandlerOf(path) # {} \/ HasDefault
       THEN /\ handled' = Append(handled, [path |-> path, by |-> HandlerOf(path)])
            /\ UNCHANGED <<replies, open>>
       ELSE /\ WriteData("not_found")
            /\ open' = FALSE
            /\ UNCHANGED handled
    /\ UNCHANGED <<sent, stream, chunk, left, parser, overrun>>

Next ==
    \/ \E r \in Requests : ClientSends(r)
    \/ \E n \in 1..Len(stream) : Arrive(n)
    \/ ReadData
    \/ ReadDataBad
    \/ Close
    \/ ReadHttpPacket

Spec == Init /\ [][Next]_vars
-----------------------------------------------------------------------------
(***************************************************************************)
(* What the assertion at the top of SessionBuffer::RemoveData says of its   *)
(* callers: ReadData never removes more than the buffer holds.              *)
(***************************************************************************)
RemovesWhatIsThere == ~overrun
=============================================================================
