---------------------------- MODULE RequestHeads ----------------------------
(***************************************************************************)
(* The guest to upstream half of a MITM connection of shuru-proxy: a       *)
(* RequestStream finds each request head in bytes that arrive in any       *)
(* split, the relay resolves the secrets, and the head is forwarded with   *)
(* them swapped in.  Bodies and tunnels pass untouched.  A byte is a token:*)
(* "r" "n" are CR and LF, "p" "q" the two halves of a placeholder, "s" one *)
(* scoped to Authorization, "E" a placeholder inside a Basic token, "A"    *)
(* opens an Authorization line, and the first token of a head tells its    *)
(* framing: "g" none, "l" Content-Length 2, "c" chunked, "x" ambiguous.    *)
(***************************************************************************)
EXTENDS Naturals, Sequences, SequencesExt

CONSTANTS
    Scripts,        \* what a guest may send, as sequences of tokens
    MaxRead,        \* the longest read
    MAX_HEAD,       \* the longest head buffered
    MAX_CHUNK_LINE, \* the longest chunk size or trailer line kept
    MaxRotations    \* times the secret may be rotated

VARIABLES
    script,         \* what the guest sends
    at,             \* how much of it was read
    stream,         \* RequestStream: [state, head, held, has, body]
    data,           \* the rest of the bytes of the last read
    out,            \* what was forwarded upstream
    pc,             \* where the relay is
    secret,         \* the version of the secret the table has now
    pair,           \* the version the stream would swap in
    since,          \* the version there was when the held head completed
    used            \* [since, version] of each head released

vars == <<script, at, stream, data, out, pc, secret, pair, since, used>>

Min2(a, b) == IF a < b THEN a ELSE b
From(s, i) == SubSeq(s, i, Len(s))
HEAD_END == <<"r", "n", "r", "n">>
NoBody == [kind |-> "none", left |-> 0, line |-> <<>>]

\* The positions just past an occurrence of w in s.
EndsOf(s, w) == {i \in Len(w)..Len(s) : SubSeq(s, i - Len(w) + 1, i) = w}
FirstEnd(s, w) == CHOOSE i \in EndsOf(s, w) : \A j \in EndsOf(s, w) : i <= j

\* Mutant: head_end looks only in the new bytes.
HeadEndInChunk(prev, hay) ==
    IF EndsOf(hay, HEAD_END) = {} THEN 0 ELSE FirstEnd(hay, HEAD_END)

\* head_end: how much of hay is taken by the end of the head, 0 when it is not
\* there.  A probe of the last three bytes before and the first three of hay
\* finds one that started before.
head_end(prev, hay) ==
    LET back == Min2(Len(prev), 3)
        probe == From(prev, Len(prev) - back + 1) \o SubSeq(hay, 1, Min2(Len(hay), 3))
        across == {i \in EndsOf(probe, HEAD_END) : i - 4 < back}
    IN CASE back > 0 /\ across # {} -> (CHOOSE i \in across : \A j \in across : i <= j) - back
         [] EndsOf(hay, HEAD_END) # {} /\ (back = 0 \/ across = {}) -> FirstEnd(hay, HEAD_END)
         [] OTHER -> 0

\* classify, by the token that stands for the framing headers.
classify(head) ==
    CASE head[1] = "g" -> "none" [] head[1] = "l" -> "exact"
      [] head[1] = "c" -> "chunked" [] OTHER -> "ambiguous"

\* replace_bytes of the placeholder by its value.
RECURSIVE replace_bytes(_)
replace_bytes(s) ==
    CASE Len(s) < 2 -> s
      [] Len(s) >= 2 /\ SubSeq(s, 1, 2) = <<"p", "q">> -> <<"V">> \o replace_bytes(From(s, 3))
      [] OTHER -> <<s[1]>> \o replace_bytes(From(s, 2))

\* authorization_line and basic: in the value of an Authorization header only,
\* the scoped placeholder, and every placeholder inside a Basic token.
authorization_line(line) ==
    IF line # <<>> /\ line[1] = "A"
       THEN [i \in 1..Len(line) |-> CASE line[i] = "s" -> "W" [] line[i] = "E" -> "F"
                                      [] OTHER -> line[i]]
       ELSE line

RECURSIVE substitute_authorization(_)
substitute_authorization(s) ==
    IF EndsOf(s, <<"r", "n">>) = {} THEN authorization_line(s)
    ELSE LET e == FirstEnd(s, <<"r", "n">>)
         IN authorization_line(SubSeq(s, 1, e)) \o substitute_authorization(From(s, e + 1))

Rewritten(head) == substitute_authorization(replace_bytes(head))

\* finish_head: the framing is read from what the guest sent.
StateAfter(head) ==
    CASE classify(head) = "none" -> [state |-> "head", body |-> NoBody]
      [] classify(head) = "exact" -> [state |-> "body",
                                      body |-> [NoBody EXCEPT !.kind = "exact", !.left = 2]]
      [] classify(head) = "chunked" -> [state |-> "body", body |-> [NoBody EXCEPT !.kind = "size"]]
      [] OTHER -> [state |-> "tunnel", body |-> NoBody]

----------------------------------------------------------------------------
(* Body.consume: how many tokens belong to the body and whether it ended.   *)

Lines(s) == EndsOf(s, <<"n">>)
Digit == [d \in {"0", "1", "2"} |-> CASE d = "0" -> 0 [] d = "1" -> 1 [] d = "2" -> 2]
Blank(line) == ToSet(line) \subseteq {"r", "n"}

RECURSIVE chunked(_, _, _)
chunked(b, s, pos) ==
    IF pos = Len(s) THEN [body |-> b, taken |-> pos, ended |-> FALSE]
    ELSE LET rest == From(s, pos + 1)
             eol == IF Lines(rest) = {} THEN 0 ELSE FirstEnd(rest, <<"n">>)
             line == b.line \o SubSeq(rest, 1, eol)
             long == eol = 0 /\ Len(b.line) + Len(rest) > MAX_CHUNK_LINE
             stop(x, p, e) == [body |-> x, taken |-> p, ended |-> e]
         IN CASE b.kind = "size" /\ eol > 0 /\ line[1] \notin DOMAIN Digit ->
                    stop([b EXCEPT !.line = <<>>], pos + eol, FALSE)
              [] b.kind = "size" /\ eol > 0 /\ line[1] \in DOMAIN Digit ->
                    LET n == Digit[line[1]]
                    IN chunked([kind |-> IF n = 0 THEN "trailer" ELSE "data",
                                left |-> n, line |-> <<>>], s, pos + eol)
              [] b.kind = "trailer" /\ eol > 0 /\ Blank(line) ->
                    stop([b EXCEPT !.line = <<>>], pos + eol, TRUE)
              [] b.kind = "trailer" /\ eol > 0 /\ ~Blank(line) ->
                    chunked([b EXCEPT !.line = <<>>], s, pos + eol)
              [] b.kind \in {"size", "trailer"} /\ long -> stop(b, pos, FALSE)
              [] b.kind \in {"size", "trailer"} /\ eol = 0 /\ ~long ->
                    chunked([b EXCEPT !.line = @ \o rest], s, Len(s))
              [] b.kind = "data" ->
                    LET take == Min2(b.left, Len(rest))
                    IN chunked([b EXCEPT !.left = @ - take,
                                         !.kind = IF b.left = take THEN "end" ELSE "data"],
                               s, pos + take)
              [] b.kind = "end" ->
                    chunked([b EXCEPT !.kind = IF rest[1] = "n" THEN "size" ELSE "end"],
                            s, pos + 1)

consume(b, s) ==
    IF b.kind = "exact"
       THEN LET take == Min2(b.left, Len(s))
            IN [body |-> [b EXCEPT !.left = @ - take], taken |-> take,
                ended |-> b.left = take]
       ELSE chunked(b, s, 0)

\* RequestStream.advance: up to the end of the next head.
RECURSIVE advance(_, _, _, _)
advance(r, s, pos, fwd) ==
    LET rest == From(s, pos + 1)
    IN CASE pos = Len(s) \/ r.has -> [stream |-> r, taken |-> pos, out |-> fwd]
         [] pos < Len(s) /\ ~r.has /\ r.state = "tunnel" ->
               [stream |-> r, taken |-> Len(s), out |-> fwd \o rest]
         [] pos < Len(s) /\ ~r.has /\ r.state = "body" ->
               LET c == consume(r.body, rest)
                   next == CASE c.ended -> "head" [] ~c.ended /\ c.taken = 0 -> "tunnel"
                             [] OTHER -> "body"
               IN advance([r EXCEPT !.body = c.body, !.state = next], s, pos + c.taken,
                          fwd \o SubSeq(rest, 1, c.taken))
         [] pos < Len(s) /\ ~r.has /\ r.state = "head" ->
               LET end == head_end(r.head, rest)
                   all == r.head \o rest
               IN CASE end > 0 ->
                          advance([r EXCEPT !.held = r.head \o SubSeq(rest, 1, end),
                                            !.has = TRUE, !.head = <<>>],
                                  s, pos + end, fwd)
                    [] end = 0 /\ Len(all) > MAX_HEAD ->
                          [stream |-> [r EXCEPT !.head = <<>>, !.state = "tunnel"],
                           taken |-> Len(s), out |-> fwd \o all]
                    [] OTHER ->
                          [stream |-> [r EXCEPT !.head = all], taken |-> Len(s), out |-> fwd]

----------------------------------------------------------------------------
(* handle_mitm, guest to upstream. *)

Init ==
    /\ script \in Scripts
    /\ at = 0 /\ data = <<>> /\ out = <<>>
    /\ stream = [state |-> "head", head |-> <<>>, held |-> <<>>, has |-> FALSE, body |-> NoBody]
    /\ pc = "read"
    /\ secret = 0 /\ pair = 0 /\ since = 0
    /\ used = <<>>

\* A read returns what the guest sent so far, split anywhere.
Read ==
    /\ pc = "read" /\ at < Len(script)
    /\ \E n \in 1..Min2(MaxRead, Len(script) - at) :
          data' = SubSeq(script, at + 1, at + n) /\ at' = at + n
    /\ pc' = "advance"
    /\ UNCHANGED <<script, stream, out, secret, pair, since, used>>

\* The guest stopped sending: what is pending of a head is forwarded.
Eof ==
    /\ pc = "read" /\ at = Len(script)
    /\ out' = out \o stream.head
    /\ stream' = [stream EXCEPT !.head = <<>>]
    /\ pc' = "eof"
    /\ UNCHANGED <<script, at, data, secret, pair, since, used>>

Advance ==
    LET a == advance(stream, data, 0, <<>>)
    IN /\ pc = "advance"
       /\ stream' = a.stream /\ out' = out \o a.out
       /\ data' = From(data, a.taken + 1)
       /\ pc' = IF a.stream.has THEN "resolve" ELSE "read"
       /\ since' = IF a.stream.has THEN secret ELSE since
       /\ UNCHANGED <<script, at, secret, pair, used>>

Resolves == pair' = secret

\* substitutions_for_domain, then update; a failed resolve ends the relay.
Resolve ==
    /\ pc = "resolve"
    /\ \/ Resolves /\ pc' = "release"
       \/ pc' = "ended" /\ UNCHANGED pair
    /\ UNCHANGED <<script, at, stream, data, out, secret, since, used>>

Release ==
    LET after == StateAfter(stream.held)
    IN /\ pc = "release"
       /\ out' = out \o Rewritten(stream.held)
       /\ stream' = [stream EXCEPT !.held = <<>>, !.has = FALSE, !.state = after.state,
                                   !.body = after.body]
       /\ used' = Append(used, [since |-> since, version |-> pair])
       /\ pc' = "advance"
       /\ UNCHANGED <<script, at, data, secret, pair, since>>

\* The upstream closes, or a write to it fails: the select ends the relay.
UpstreamEnds ==
    /\ pc \notin {"eof", "ended"} /\ pc' = "ended"
    /\ UNCHANGED <<script, at, stream, data, out, secret, pair, since, used>>

Rotate ==
    /\ secret < MaxRotations /\ pc \notin {"eof", "ended"} /\ secret' = secret + 1
    /\ UNCHANGED <<script, at, stream, data, out, pc, pair, since, used>>

Next == Read \/ Eof \/ Advance \/ Resolve \/ Release \/ UpstreamEnds \/ Rotate

Spec == Init /\ [][Next]_vars

----------------------------------------------------------------------------
(* Properties.  Expected parses the whole script at once, by the grammar of *)
(* requests rather than by the stream machine.                              *)

RECURSIVE ChunksEnd(_, _)
ChunksEnd(s, i) ==
    \* Where the body ends whose next chunk size line begins at i, or 0.
    LET line == FirstEnd(From(s, i), <<"n">>)
        n == Digit[s[i]]
        blank == EndsOf(From(s, i + line), <<"r", "n">>)
    IN CASE EndsOf(From(s, i), <<"n">>) = {} -> 0
         [] EndsOf(From(s, i), <<"n">>) # {} /\ n = 0 ->
               IF blank = {} THEN 0 ELSE i + line + 1
         [] OTHER -> IF Len(s) < i + line + n + 1 THEN 0 ELSE ChunksEnd(s, i + line + n + 2)

RECURSIVE Expected(_)
Expected(s) ==
    IF EndsOf(s, HEAD_END) = {} THEN s
    ELSE LET h == FirstEnd(s, HEAD_END)
             head == SubSeq(s, 1, h)
             b == IF classify(head) = "exact" THEN Min2(h + 2, Len(s))
                  ELSE IF classify(head) = "chunked" THEN ChunksEnd(s, h + 1) ELSE h
         IN IF classify(head) = "ambiguous" \/ b = 0
               THEN Rewritten(head) \o From(s, h + 1)
               ELSE Rewritten(head) \o SubSeq(s, h + 1, b) \o Expected(From(s, b + 1))

\* What is forwarded does not depend on how the bytes were split: it is always
\* a prefix of the whole script rewritten head by head, and all of it when the
\* guest stops sending.  No body byte is changed and none is lost.
SplitFree ==
    /\ IsPrefix(out, Expected(script))
    /\ pc = "eof" => out = Expected(script)

\* Bytes are withheld only while a head is incomplete, and only those of that
\* head: between reads everything else was forwarded.
WithholdsHead ==
    pc = "read" => out \o stream.head = Expected(SubSeq(script, 1, at))

\* A secret that was rotated before a head was complete is never swapped into
\* that head.
NeverOlder == \A i \in 1..Len(used) : used[i].version >= used[i].since

HeadsSafe == SplitFree /\ WithholdsHead /\ NeverOlder

\* "A head larger than this is tunnelled": a head that is rewritten fits
\* MAX_HEAD.  Violated: the cap is looked at only when a read does not end the
\* head, so whether a larger one is tunnelled depends on the split.
RewritesSmallHeads == stream.has => Len(stream.held) <= MAX_HEAD
=============================================================================
