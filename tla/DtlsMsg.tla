------------------------------ MODULE DtlsMsg ------------------------------
(***************************************************************************)
(* Reassembly of one handshake message from its fragments: a list of       *)
(* disjoint buckets in the order of their offsets.  A byte is represented  *)
(* by its position in the message.                                         *)
(***************************************************************************)
EXTENDS Integers, Sequences, FiniteSetsExt

CONSTANT FragPool   \* DTLS_FRAG_POOL_SZ: buckets per message

ASSUME FragPoolAssumption == FragPool \in Nat \ {0}

Junk == -1          \* memory that nothing was copied to

End(b) == b.offset + Len(b.data)

Read(s, i) == IF i \in DOMAIN s THEN s[i] ELSE Junk

\* XREALLOC(s, size)
Realloc(s, size) == [i \in 1 .. size |-> Read(s, i)]

\* XMEMMOVE(buf + at, src, n)
Copy(buf, at, src, n) ==
    [i \in DOMAIN buf |-> IF i \in at + 1 .. at + n THEN Read(src, i - at) ELSE buf[i]]

From(s, k) == SubSeq(s, k + 1, Len(s))

\* mutant: the new data is always put after what is there.
DtlsMsgCombineAfter(cur, next, bridges, frag) ==
    [offset |-> Min({cur.offset, frag.offset}),
     data   |-> cur.data \o frag.data \o (IF bridges THEN next.data ELSE <<>>)]

\* One bucket of cur, frag and, when frag bridges the gap, next; the larger of cur and
\* next is grown and the other one copied.
DtlsMsgCombineFragBuckets(cur, next, bridges, frag) ==
    LET offset == Min({cur.offset, frag.offset})
        size   == (IF bridges THEN End(next) ELSE Max({End(cur), End(frag)})) - offset
        grown  == ~bridges \/ Len(cur.data) >= Len(next.data)     \* cur is
        memory == Realloc(IF grown THEN cur.data ELSE next.data, size)
        buf    == IF bridges THEN Copy(memory, next.offset - offset, next.data, Len(next.data))
                  ELSE memory
        end    == IF bridges THEN next.offset ELSE offset + size
        old    == IF grown THEN buf ELSE cur.data
        data   ==
          CASE offset = frag.offset /\ end <= End(frag) ->
                 Copy(buf, 0, frag.data, Min({Len(frag.data), end - offset}))
            [] offset = frag.offset /\ end > End(frag) ->
                 Copy(Copy(buf, Len(frag.data), old, Len(cur.data) - (End(frag) - cur.offset)),
                      0, frag.data, Len(frag.data))
            [] offset # frag.offset ->
                 Copy(IF grown THEN buf ELSE Copy(buf, 0, cur.data, Len(cur.data)),
                      Len(cur.data), From(frag.data, End(cur) - frag.offset), end - End(cur))
    IN  [offset |-> offset, data |-> data]

SizeOf(buckets) == MapThenSumSet(LAMBDA i : Len(buckets[i].data), DOMAIN buckets)

\* A message is ready when as many bytes have been counted as it is long.
DtlsMsgAssembleCompleteMessage(msg) ==
    [msg EXCEPT !.ready = /\ msg.received = msg.size
                          /\ Len(msg.buckets) = 1
                          /\ msg.buckets[1].offset = 0
                          /\ Len(msg.buckets[1].data) = msg.size]

\* mutant: the bytes of the next bucket are counted twice.
CombineNextCounted(msg, i, frag) ==
    LET bs == msg.buckets
        j  == Min({k \in i + 1 .. Len(bs) : End(bs[k]) > End(frag)} \cup {Len(bs) + 1})
        bridges == j <= Len(bs) /\ End(frag) >= bs[Min({j, Len(bs)})].offset
        new == DtlsMsgCombineFragBuckets(bs[i], bs[Min({j, Len(bs)})], bridges, frag)
        gone == SubSeq(bs, i, j - 1)
    IN  [msg EXCEPT !.buckets = SubSeq(bs, 1, i - 1) \o <<new>> \o From(bs, IF bridges THEN j ELSE j - 1),
                    !.received = @ + Len(new.data) - SizeOf(gone)]

\* frag joins bucket i, the buckets it covers and the one it reaches.
Combine(msg, i, frag) ==
    LET bs == msg.buckets
        j  == Min({k \in i + 1 .. Len(bs) : End(bs[k]) > End(frag)} \cup {Len(bs) + 1})
        next == bs[Min({j, Len(bs)})]
        bridges == j <= Len(bs) /\ End(frag) >= next.offset
        last == IF bridges THEN j ELSE j - 1
        new == DtlsMsgCombineFragBuckets(bs[i], next, bridges, frag)
    IN  [msg EXCEPT !.buckets = SubSeq(bs, 1, i - 1) \o <<new>> \o From(bs, last),
                    !.received = @ + Len(new.data) - SizeOf(SubSeq(bs, i, last))]

\* A bucket of its own, unless there are too many.
AddBucket(msg, buckets, frag) ==
    IF Len(msg.buckets) >= FragPool THEN msg
    ELSE [msg EXCEPT !.buckets = buckets, !.received = @ + Len(frag.data)]

\* The first bucket that does not end before frag takes it.
DtlsMsgSet(msg, frag) ==
    LET bs == msg.buckets
        reached == {k \in DOMAIN bs : frag.offset <= End(bs[k])}
        i == Min(reached)
    IN  CASE msg.ready -> msg
          [] ~msg.ready /\ reached = {} ->
               DtlsMsgAssembleCompleteMessage(AddBucket(msg, Append(bs, frag), frag))
          [] ~msg.ready /\ reached # {} ->
               DtlsMsgAssembleCompleteMessage(
                 IF frag.offset >= bs[i].offset /\ End(frag) <= End(bs[i]) THEN msg
                 ELSE IF i = 1 /\ End(frag) < bs[i].offset
                 THEN AddBucket(msg, <<frag>> \o bs, frag)
                 ELSE Combine(msg, i, frag))

DtlsMsgNew(number, size) ==
    [number |-> number, size |-> size, ready |-> FALSE, buckets |-> <<>>, received |-> 0]
=============================================================================
