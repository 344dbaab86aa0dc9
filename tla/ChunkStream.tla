----------------------------- MODULE ChunkStream -----------------------------
(***************************************************************************)
(* The receiving side of SrsProtocol: messages come cut into chunks, those  *)
(* of several chunk streams interleaved, with headers that leave out what   *)
(* did not change.  SrsChunkStream keeps per stream what the next header    *)
(* needs and the message that is being put together.                        *)
(*                                                                         *)
(* One step is one chunk that the peer writes and recv_interlaced_message   *)
(* reads: the socket is a FIFO, and what a chunk means depends only on the  *)
(* chunks before it.  Payload is counted in units of four bytes, the size   *)
(* of an extended timestamp.  The peer is any legal one: this server as a   *)
(* forwarder or an edge, FMLE, ffmpeg.  (ChunkInit and its like carry a      *)
(* prefix for Server_proofs, which is about this module and Server.)        *)
(***************************************************************************)
EXTENDS Integers

CONSTANTS
    Cids,        \* chunk streams in use
    Extended,    \* RTMP_EXTENDED_TIMESTAMP, 0xffffff
    Wrap,        \* 2^31, times are kept modulo it
    MaxTime,     \* bound: times of the peer
    MaxStep,     \* bound: time between two messages of a chunk stream
    MaxLength,   \* bound: units of a message
    ChunkSizes   \* what the peer sets its chunk size to

ASSUME ChunkAssumption ==
    /\ Extended \in Nat \ {0} /\ Wrap \in Nat /\ Extended < Wrap
    /\ MaxTime \in Nat /\ MaxStep \in Nat /\ MaxLength \in Nat
    /\ ChunkSizes \subseteq Nat \ {0}

VARIABLES
    repeats,     \* the peer repeats an extended timestamp in every chunk
    chunk_size,  \* out_chunk_size of the peer, and in_chunk_size
    peer,        \* by cid: the message the peer writes or wrote last
    chunk,       \* by cid: SrsChunkStream
    looks,       \* history: the payload of a chunk began like its timestamp
    sync         \* "ok"; "error", refused; "lost", payload taken for a header

chunkVars == <<repeats, chunk_size, peer, chunk, looks, sync>>

(* Nothing was read or written yet.                                          *)
ChunkInit ==
    /\ repeats \in BOOLEAN
    /\ chunk_size \in ChunkSizes
    /\ peer = [c \in Cids |->
         [time |-> 0, stamp |-> 0, origin |-> 0, length |-> 0, left |-> 0, fresh |-> TRUE]]
    /\ chunk = [c \in Cids |->
         [timestamp |-> 0, timestamp_delta |-> 0, payload_length |-> 0,
          extended_timestamp |-> FALSE, fresh |-> TRUE, msg |-> FALSE, size |-> 0]]
    /\ looks = FALSE
    /\ sync = "ok"

Least(m, n) == IF m < n THEN m ELSE n
-----------------------------------------------------------------------------
(* read_message_header: a new chunk stream starts with fmt 0 or, for librtmp,  *)
(* 1; no message may start, or change its length, inside another.            *)
Refused(s, fmt, length) ==
    \/ s.fresh /\ fmt \notin {0, 1}
    \/ s.msg /\ fmt = 0
    \/ s.msg /\ fmt = 1 /\ length # s.payload_length

IsExtended(s, fmt, field) ==
    IF fmt = 3 THEN s.extended_timestamp ELSE field >= Extended

(* Mutant: a fmt 3 header never moves the time. *)
AbsoluteOrDelta(s, fmt, field) ==
    IF IsExtended(s, fmt, field) \/ fmt = 3 THEN s.timestamp
    ELSE IF fmt = 0 THEN field ELSE s.timestamp + field

(* The time before an extended timestamp is looked at.  The first chunk of a   *)
(* message moves it by the last delta although its header gives none.         *)
TimeOf(s, fmt, field) ==
    CASE IsExtended(s, fmt, field) -> s.timestamp
      [] ~IsExtended(s, fmt, field) /\ fmt = 0 -> field
      [] ~IsExtended(s, fmt, field) /\ fmt \in {1, 2} -> s.timestamp + field
      [] ~IsExtended(s, fmt, field) /\ fmt = 3 ->
            s.timestamp + IF s.msg THEN 0 ELSE s.timestamp_delta

(* Mutant: every chunk of the stream is expected to repeat it. *)
TakesAlways(s, fmt, field, next) == IsExtended(s, fmt, field)

(* The four bytes after the header are the extended timestamp, or, in a later  *)
(* chunk of a message, payload when they differ from its time.                *)
Takes(s, fmt, field, next) ==
    /\ IsExtended(s, fmt, field)
    /\ ~s.msg \/ s.timestamp = 0 \/ s.timestamp = next % Wrap

(* recv_interlaced_message: a header of which the extended part is there or    *)
(* not (written), four bytes (next), and as much payload as a chunk may have.  *)
Read(c, fmt, field, length, written, next) ==
    LET s     == chunk[c]
        takes == Takes(s, fmt, field, next)
        time  == (IF takes THEN next ELSE TimeOf(s, fmt, field)) % Wrap
        whole == IF fmt \in {0, 1} THEN length ELSE s.payload_length
        size  == s.size + Least(whole - s.size, chunk_size)
        done  == size = whole
    IN  \/ /\ Refused(s, fmt, length)
           /\ sync' = "error"
           /\ UNCHANGED chunk
        \/ /\ ~Refused(s, fmt, length)
           /\ sync' = IF takes = written THEN "ok" ELSE "lost"
           /\ chunk' = [chunk EXCEPT ![c] =
                 [timestamp |-> time,
                  timestamp_delta |-> IF fmt = 3 THEN s.timestamp_delta ELSE field,
                  payload_length |-> whole,
                  extended_timestamp |-> IsExtended(s, fmt, field),
                  fresh |-> FALSE,
                  msg |-> ~done,
                  size |-> IF done THEN 0 ELSE size]]
-----------------------------------------------------------------------------
(* What the header of a new message may leave out: its length and kind, when    *)
(* the last message had the same, and what it says of the time, when that much   *)
(* passed again.                                                             *)
Allowed(p, fmt, time, length) ==
    \/ fmt = 0
    \/ fmt = 1 /\ time - p.time \in 0 .. MaxStep
    \/ /\ fmt = 2
       /\ ~p.fresh /\ length = p.length
       /\ time - p.time \in 0 .. MaxStep
    \/ /\ fmt = 3
       /\ ~p.fresh /\ length = p.length
       /\ time - p.time = p.stamp

(* What a header says of the time, the difference to the last message unless it *)
(* is fmt 0, which is all that this server writes.                             *)
Stamp(p, fmt, time) ==
    CASE fmt = 0 -> time
      [] fmt \in {1, 2} -> time - p.time
      [] fmt = 3 -> p.stamp

(* One that does not fit the field is written behind the header.             *)
IsLong(stamp) == stamp >= Extended

(* A difference that is written there is read as the time itself: from then on  *)
(* times count from the message before it.                                    *)
OriginOf(p, fmt, stamp) ==
    CASE fmt = 0 -> 0
      [] fmt # 0 /\ IsLong(stamp) -> p.time
      [] fmt # 0 /\ ~IsLong(stamp) -> p.origin

FirstChunk(c, fmt, time, length) ==
    LET stamp == Stamp(peer[c], fmt, time)
    IN  /\ sync = "ok"
        /\ peer[c].left = 0
        /\ Allowed(peer[c], fmt, time, length)
        /\ peer' = [peer EXCEPT ![c] =
              [time |-> time, stamp |-> stamp, origin |-> OriginOf(peer[c], fmt, stamp),
               length |-> length, left |-> length - Least(length, chunk_size),
               fresh |-> FALSE]]
        /\ Read(c, fmt, Least(stamp, Extended), length, IsLong(stamp), stamp)
        /\ UNCHANGED <<repeats, chunk_size, looks>>

(* The rest of a message, while other streams go on; without the timestamp, the *)
(* bytes that follow may happen to be the same.                               *)
NextChunk(c, same) ==
    LET p == peer[c]
        written == repeats /\ IsLong(p.stamp)
    IN  /\ sync = "ok"
        /\ p.left > 0
        /\ peer' = [peer EXCEPT ![c].left = p.left - Least(p.left, chunk_size)]
        /\ looks' = (~written /\ same)
        /\ Read(c, 3, 0, 0, written, IF written \/ same THEN p.stamp ELSE p.stamp + 1)
        /\ UNCHANGED <<repeats, chunk_size>>

(* RTMP_MSG_SetChunkSize, between two chunks of whatever is being written.     *)
SetChunkSize(v) ==
    /\ sync = "ok"
    /\ chunk_size' = v
    /\ UNCHANGED <<repeats, peer, chunk, looks, sync>>

ChunkNext ==
    \/ \E c \in Cids, fmt \in 0 .. 3, time \in 0 .. MaxTime, length \in 0 .. MaxLength :
          FirstChunk(c, fmt, time, length)
    \/ \E c \in Cids, same \in BOOLEAN : NextChunk(c, same)
    \/ \E v \in ChunkSizes : SetChunkSize(v)

ChunkSpec == ChunkInit /\ [][ChunkNext]_chunkVars
-----------------------------------------------------------------------------
(* However chunk streams interleave, headers are shortened, times pass the      *)
(* limits of their fields and chunk sizes change inside a message: the message  *)
(* being put together, or received last, is the one the peer wrote, and as      *)
(* much of it is missing as the peer has not written.  Its time is the peer's,  *)
(* counted from the message before the last extended difference.              *)
MessagesArrive ==
    sync = "ok" => \A c \in Cids :
        /\ chunk[c].timestamp = (peer[c].time - peer[c].origin) % Wrap
        /\ chunk[c].payload_length = peer[c].length
        /\ chunk[c].msg <=> peer[c].left > 0
        /\ chunk[c].msg => chunk[c].payload_length - chunk[c].size = peer[c].left

(* srs_rtmp_stack.cpp:1198 "ffmpeg/librtmp may donot send this filed, need to   *)
(* detect the value": no legal chunk is refused, and payload is taken for a     *)
(* timestamp only when it looks like one, or when that is a multiple of 2^31,    *)
(* for which the detection is left out.                                       *)
StaysInSync ==
    /\ sync # "error"
    /\ sync = "lost" =>
         /\ ~repeats
         /\ looks \/ \E c \in Cids : IsLong(peer[c].stamp) /\ peer[c].stamp % Wrap = 0
=============================================================================
