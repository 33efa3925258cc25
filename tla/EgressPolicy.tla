---------------------------- MODULE EgressPolicy ----------------------------
(***************************************************************************)
(* What the guest may reach through shuru-proxy, how fast, and the record  *)
(* of it: Gate decides each SYN with two token buckets, Egress paces the   *)
(* bytes that leave, DNS answers for allowed domains pin the addresses a   *)
(* connection may go to, handle_connection checks a connection before it   *)
(* goes upstream, and EgressLog writes a line for each.  The stack thread, *)
(* the proxy engine, the task of each connection and of each query, and    *)
(* the control thread of netd interleave.  A payload is a number of bytes, *)
(* of which the pace gives back one a tick.                                *)
(***************************************************************************)
EXTENDS Integers, Sequences, FiniteSets

CONSTANTS
    Conns,
    Targets,        \* what a SYN may name: [ip, port, sni], sni "none" without a ClientHello
    Allow,          \* the domains allowed; {} allows all
    Answer,         \* domain -> the addresses the resolver answers, in order
    Refused,        \* the addresses public_only refuses; {} without it
    Gateway,        \* the address of the host
    Exposed,        \* the ports of expose_host
    DenyPorts,      \* ports refused outright
    ConnBurst, DestBurst, EgressBurst,  \* the bursts; each refills 1 per tick
    EGRESS_SLACK,   \* debt, in ticks, that holds nothing back
    PinCapacity,    \* ALLOWED_IPS_CAPACITY
    Kept,           \* DESTINATIONS_KEPT
    Memory,         \* DESTINATION_MEMORY, in ticks
    MaxClock,
    MaxBytes,       \* bytes a connection sends
    MaxAway         \* SYNs turned away

Domains == DOMAIN Answer
NoTarget == [ip |-> "none", port |-> 0, sni |-> "none"]

VARIABLES
    clock,
    gate,           \* [conns, dests, at, reached]: the buckets and the LRU
    pace,           \* [tokens, at]: the bucket of Egress
    log,            \* [open, held, closed]: the State of EgressLog
    conn,           \* connection -> [at, to, left, n, until, back]
    query,          \* domain -> the stage of its query
    pins,           \* allowed_ips, least recently used first
    events,         \* connections the stack told the engine of
    written,        \* connection -> the lines written about it
    late,           \* connections opened in the record after it was closed
    away,           \* [turned, reported]: SYNs turned away, and those written
    opened,         \* [all, new]: SYNs let through, and to new destinations
    sent,           \* the bytes that left
    used            \* addresses pinned and looked up, latest last

vars == <<clock, gate, pace, log, conn, query, pins, events, written, late, away, opened, sent,
          used>>

Init ==
    /\ clock = 0
    /\ gate = [conns |-> ConnBurst, dests |-> DestBurst, at |-> 0, reached |-> <<>>]
    /\ pace = [tokens |-> EgressBurst, at |-> 0]
    /\ log = [open |-> {}, held |-> 0, closed |-> FALSE]
    /\ conn = [c \in Conns |-> [at |-> "none", to |-> NoTarget, left |-> MaxBytes, n |-> 0,
                               until |-> 0, back |-> "none"]]
    /\ query = [d \in Domains |-> "none"]
    /\ pins = <<>>
    /\ events = {}
    /\ written = [c \in Conns |-> 0]
    /\ late = {}
    /\ away = [turned |-> 0, reported |-> 0]
    /\ opened = [all |-> 0, new |-> 0]
    /\ sent = 0
    /\ used = <<>>

At(c, stage) == conn[c].at = stage
Tick == clock < MaxClock /\ clock' = clock + 1
        /\ UNCHANGED <<gate, pace, log, conn, query, pins, events, written, late, away,
                       opened, sent, used>>

\* An LRU cache as the sequence of its keys, the most recent last.
Without(lru, k) == SelectSeq(lru, LAMBDA e : e # k)
Put(lru, k, cap) ==
    LET all == Append(Without(lru, k), k)
    IN IF Len(all) > cap THEN Tail(all) ELSE all
\* Mutant: the lookup leaves the order of the cache as it is.
Peeks(lru, k, cap) == lru
\* get: what is looked up becomes the most recent.
Get(lru, k, cap) == Put(lru, k, cap)
Has(lru, k) == \E i \in 1..Len(lru) : lru[i] = k

Least(a, b) == IF a < b THEN a ELSE b

\* Bucket.refill at one token a tick.
refill(tokens, burst, at) == Least(tokens + (clock - at), burst)

----------------------------------------------------------------------------
(* Gate.admit on a SYN, in the stack thread. *)

Reached(dst) ==
    \E i \in 1..Len(gate.reached) :
        gate.reached[i].dst = dst /\ clock - gate.reached[i].time < Memory

\* Gate.decide.
decide(to) ==
    LET dst == <<to.ip, to.port>>
        conns == refill(gate.conns, ConnBurst, gate.at)
        dests == refill(gate.dests, DestBurst, gate.at)
        new == ~Reached(dst)
    IN CASE to.port \in DenyPorts -> [verdict |-> "refuse", gate |-> gate, new |-> FALSE]
         [] to.port \notin DenyPorts /\ (conns < 1 \/ (new /\ dests < 1)) ->
               [verdict |-> "wait", new |-> FALSE,
                gate |-> [gate EXCEPT !.conns = conns, !.dests = dests, !.at = clock]]
         [] OTHER ->
               LET kept == SelectSeq(gate.reached, LAMBDA e : e.dst # dst)
                   all == Append(kept, [dst |-> dst, time |-> clock])
               IN [verdict |-> "open", new |-> new,
                   gate |-> [conns |-> conns - 1, dests |-> IF new THEN dests - 1 ELSE dests,
                             at |-> clock,
                             reached |-> IF Len(all) > Kept THEN Tail(all) ELSE all]]

\* A SYN held back is sent again by the guest.
admit(c, to) ==
    LET d == decide(to)
    IN /\ At(c, "none") /\ ~log.closed /\ away.turned < MaxAway
       /\ gate' = d.gate
       /\ log' = IF d.verdict = "open" THEN log ELSE [log EXCEPT !.held = @ + 1]
       /\ away' = IF d.verdict = "open" THEN away ELSE [away EXCEPT !.turned = @ + 1]
       /\ conn' = [conn EXCEPT ![c].to = to,
                               ![c].at = CASE d.verdict = "open" -> "syn"
                                           [] d.verdict = "refuse" -> "refused"
                                           [] OTHER -> "none"]
       /\ events' = IF d.verdict = "open" THEN events \union {c} ELSE events
       /\ opened' = [all |-> opened.all + (IF d.verdict = "open" THEN 1 ELSE 0),
                     new |-> opened.new + (IF d.new THEN 1 ELSE 0)]
       /\ UNCHANGED <<clock, pace, query, pins, written, late, sent, used>>

\* Gate.report, each REPORT_EVERY; EgressLog takes what it counted so far.
report ==
    /\ log.held > 0
    /\ away' = [away EXCEPT !.reported = @ + log.held]
    /\ log' = [log EXCEPT !.held = 0]
    /\ UNCHANGED <<clock, gate, pace, conn, query, pins, events, written, late, opened, sent, used>>

----------------------------------------------------------------------------
(* DNS: the answer for an allowed domain pins its addresses. *)

is_domain_allowed(d) == Allow = {} \/ d \in Allow

\* resolve_query: refused, or forwarded to the resolver on a blocking thread.
resolve_query(d) ==
    /\ query[d] = "none"
    /\ query' = [query EXCEPT ![d] = IF is_domain_allowed(d) THEN "asked" ELSE "refused"]
    /\ UNCHANGED <<clock, gate, pace, log, conn, pins, events, written, late, away, opened, sent, used>>

\* pin_resolved_ips puts each address, before the guest hears the answer.
PinAll(lru, ips) ==
    LET f[i \in 0..Len(ips)] == IF i = 0 THEN lru ELSE Put(f[i - 1], ips[i], PinCapacity)
    IN f[Len(ips)]

\* The resolver answers, or the query times out and the guest hears nothing.
pin_resolved_ips(d) ==
    /\ query[d] = "asked"
    /\ \/ /\ pins' = IF Allow = {} THEN pins ELSE PinAll(pins, Answer[d])
          /\ used' = used \o Answer[d]
          /\ query' = [query EXCEPT ![d] = "pinned"]
       \/ query' = [query EXCEPT ![d] = "failed"] /\ UNCHANGED <<pins, used>>
    /\ UNCHANGED <<clock, gate, pace, log, conn, events, written, late, away, opened, sent>>

\* handle_dns_query sends the response through the stack.
handle_dns_query(d) ==
    /\ query[d] = "pinned" /\ query' = [query EXCEPT ![d] = "told"]
    /\ UNCHANGED <<clock, gate, pace, log, conn, pins, events, written, late, away, opened, sent, used>>

----------------------------------------------------------------------------
(* The engine and the task of each connection. *)

\* handle_new_connection: in the record from here on.
handle_new_connection(c) ==
    /\ c \in events /\ events' = events \ {c}
    /\ log' = [log EXCEPT !.open = @ \union {c}]
    /\ late' = IF log.closed THEN late \union {c} ELSE late
    /\ conn' = [conn EXCEPT ![c].at = "check"]
    /\ UNCHANGED <<clock, gate, pace, query, pins, written, away, opened, sent, used>>

\* Opened dropped: the line is written unless close already wrote it.
Ends(c) ==
    /\ conn' = [conn EXCEPT ![c].at = "ended"]
    /\ log' = [log EXCEPT !.open = @ \ {c}]
    /\ written' = IF c \in log.open THEN [written EXCEPT ![c] = @ + 1] ELSE written

TaskKeeps == UNCHANGED <<clock, gate, query, events, late, away, opened>>

\* handle_connection, up to the ClientHello: no address that is refused, the
\* exposed ports of the host, and else with an allowlist an address that DNS
\* pinned, or the host's.
exposed_host_port(to) == to.ip = Gateway /\ to.port \in Exposed
handle_connection(c) ==
    LET to == conn[c].to
        listed == Allow # {} /\ ~exposed_host_port(to) /\ to.ip # Gateway
        go == IF to.port = 443 /\ ~exposed_host_port(to) THEN "hello" ELSE "connect"
    IN /\ At(c, "check")
       /\ IF to.ip \in Refused \/ (listed /\ ~Has(pins, to.ip))
             THEN Ends(c) /\ UNCHANGED <<pins, used>>
             ELSE /\ conn' = [conn EXCEPT ![c].at = go]
                  /\ pins' = IF listed THEN Get(pins, to.ip, PinCapacity) ELSE pins
                  /\ used' = IF listed THEN Append(used, to.ip) ELSE used
                  /\ UNCHANGED <<log, written>>
       /\ TaskKeeps /\ UNCHANGED <<pace, sent>>

\* GuestRx.poll_recv: a payload spends the pace, past empty, and when that
\* leaves more debt than the slack it is held back until the debt is paid.
\* The ClientHello may come in several.
After(stage) == IF stage = "hello" THEN {"hello", "sni"} ELSE {"relay"}
spend(c) ==
    \E n \in 1..conn[c].left, next \in After(conn[c].at) :
        LET had == refill(pace.tokens, EgressBurst, pace.at)
            wait == n - had
            held == wait > EGRESS_SLACK
        IN /\ conn[c].at \in {"hello", "relay"}
           /\ pace' = [tokens |-> had - n, at |-> clock]
           /\ conn' = [conn EXCEPT ![c] = [at |-> IF held THEN "held" ELSE next, to |-> @.to,
                                           left |-> @.left - n, n |-> IF held THEN n ELSE 0,
                                           until |-> IF held THEN clock + wait ELSE 0,
                                           back |-> IF held THEN next ELSE "none"]]
           /\ sent' = IF held THEN sent ELSE sent + n
           /\ TaskKeeps /\ UNCHANGED <<pins, used, log, written>>

\* GuestRx.release of a payload that was held back.
release(c) ==
    /\ At(c, "held") /\ clock >= conn[c].until
    /\ sent' = sent + conn[c].n
    /\ conn' = [conn EXCEPT ![c].at = conn[c].back, ![c].n = 0, ![c].until = 0, ![c].back = "none"]
    /\ TaskKeeps /\ UNCHANGED <<pins, used, pace, log, written>>

\* The ClientHello: with an allowlist its SNI must be allowed, and there must
\* be one.
check_sni(c) ==
    /\ At(c, "sni")
    /\ LET sni == conn[c].to.sni
       IN IF Allow = {} \/ (sni # "none" /\ is_domain_allowed(sni))
             THEN conn' = [conn EXCEPT ![c].at = "connect"] /\ UNCHANGED <<log, written>>
             ELSE Ends(c)
    /\ TaskKeeps /\ UNCHANGED <<pins, used, pace, sent>>

\* The upstream connection, which may fail; so may the secrets of the domain.
connect(c) ==
    /\ At(c, "connect")
    /\ \/ conn' = [conn EXCEPT ![c].at = "relay"] /\ UNCHANGED <<log, written>>
       \/ Ends(c)
    /\ TaskKeeps /\ UNCHANGED <<pins, used, pace, sent>>

\* Either side ends, or the task panics.
ends(c) ==
    /\ conn[c].at \in {"hello", "sni", "relay", "held"}
    /\ Ends(c)
    /\ TaskKeeps /\ UNCHANGED <<pins, used, pace, sent>>

\* EgressLog.close, when netd is asked to stop: every open connection is
\* written, and the SYNs turned away.  The tasks run on until netd exits.
close ==
    /\ ~log.closed
    /\ written' = [c \in Conns |-> IF c \in log.open THEN written[c] + 1 ELSE written[c]]
    /\ away' = [away EXCEPT !.reported = @ + log.held]
    /\ log' = [open |-> {}, held |-> 0, closed |-> TRUE]
    /\ UNCHANGED <<clock, gate, pace, conn, query, pins, events, late, opened, sent, used>>

Next ==
    \/ Tick \/ report \/ close
    \/ \E d \in Domains : resolve_query(d) \/ pin_resolved_ips(d) \/ handle_dns_query(d)
    \/ \E c \in Conns :
          \/ \E to \in Targets : admit(c, to)
          \/ handle_new_connection(c) \/ handle_connection(c) \/ check_sni(c)
          \/ connect(c) \/ spend(c) \/ release(c) \/ ends(c)

Spec == Init /\ [][Next]_vars

----------------------------------------------------------------------------
(* Properties. *)

\* Each connection the engine took before the record was closed is written
\* exactly once by the time it has ended or the record is closed, whichever of
\* its task and close comes first.
WrittenOnce ==
    \A c \in Conns :
        LET recorded == conn[c].at \notin {"none", "syn", "refused"} /\ c \notin late
        IN /\ written[c] <= 1
           /\ recorded /\ (At(c, "ended") \/ log.closed) => written[c] = 1
           /\ recorded /\ ~At(c, "ended") /\ ~log.closed => c \in log.open

\* Every SYN turned away is reported once, however report and close interleave.
AwayCountedOnce == away.turned = away.reported + log.held

\* The buckets bound what passes over the whole run: connections, connections
\* to new destinations, and bytes, with any number of tasks in debt at once
\* and the slack let out once, not once for each of them.
Paced ==
    /\ opened.all <= ConnBurst + clock
    /\ opened.new <= DestBurst + clock
    /\ sent <= EgressBurst + clock + EGRESS_SLACK

\* With an allowlist a connection goes upstream only to the host or to an
\* address that an allowed domain resolved to, and with TLS only under an
\* allowed name, whatever other domains share the address.
AllowedOnly ==
    \A c \in Conns :
        LET to == conn[c].to
            upstream == "relay" \in {conn[c].at, conn[c].back} \/ At(c, "connect")
            resolved == {d \in Domains : query[d] \in {"pinned", "told"}}
        IN upstream /\ Allow # {} =>
             /\ to.ip = Gateway \/ \E d \in resolved \intersect Allow : Has(Answer[d], to.ip)
             /\ to.port = 443 /\ ~exposed_host_port(to) => to.sni \in Allow

\* An address the guest was told was pinned before, and from then on it is let
\* go only for PinCapacity others pinned or connected to since it was last.
Since(ip) == {i \in DOMAIN used : \A j \in i..Len(used) : used[j] # ip}
WarmIsPinned ==
    Allow # {} =>
      /\ \A d \in Domains : query[d] = "told" => \A i \in DOMAIN Answer[d] : Has(used, Answer[d][i])
      /\ \A i \in DOMAIN used :
            Cardinality({used[j] : j \in Since(used[i])}) < PinCapacity => Has(pins, used[i])

EgressSafe == WrittenOnce /\ AwayCountedOnce /\ Paced /\ AllowedOnly /\ WarmIsPinned

\* "a sandbox that stops leaves its record": no connection goes upstream
\* unrecorded.  Violated: the engine may take one between close and the exit.
LateIsRefused == \A c \in late : conn[c].at # "relay"

\* An address is pinned when the guest is told it.  Violated with more
\* addresses than the cache holds: another answer evicts it in between.
ToldIsPinned ==
    [][\A d \in Domains : Allow # {} /\ query'[d] = "told" /\ query[d] # "told" =>
         \A i \in DOMAIN Answer[d] : Has(pins', Answer[d][i])]_vars
=============================================================================
