------------------------------- MODULE TcpLink -------------------------------
(***************************************************************************)
(* One direction of a TcpLink: src/link_impls/tcp_link.rs, and the reader  *)
(* task of src/links/link_entry.rs at its end.  The sender writes chunks,  *)
(* each behind its length; TCP delivers their bytes in order but in pieces *)
(* of its own, and may break at any byte.  The receiver is used directly   *)
(* (recv, whose future may be dropped at any await) until take_reader      *)
(* moves the socket with everything read so far into a task.               *)
(*                                                                         *)
(* A byte is <<k, i>>: the i-th byte written for the k-th chunk, and a     *)
(* chunk is the sequence of its bytes.                                     *)
(***************************************************************************)
EXTENDS Naturals, Sequences

CONSTANTS
  Lengths,     \* sizes of chunks
  MaxChunks,   \* bound on the chunks sent
  ReadSize,    \* bytes that one read returns at most; 1024 in the code
  ChanSize     \* capacity of the task's channel; 10 in the code

VARIABLES
  sent,          \* the sizes of the chunks sent
  stream,        \* bytes in the socket
  broken,        \* has the connection ended?
  read_len,      \* Option<u32> as a sequence
  read_buffer,
  recving,       \* does a future of recv_chunk exist?
  mode,          \* who runs recv_chunk: "link", "task", or "done" when the task has returned
  pending,       \* the chunk the task is sending
  chan,          \* the channel from the task to the TcpLinkReader
  reader,        \* the TcpLinkReader: "none", "read" or "dropped"
  received,      \* chunks returned by recv or by the TcpLinkReader
  is_closed,     \* the flag of the receiving TcpLink
  send_closed    \* the flag of the sending TcpLink

vars == <<sent, stream, broken, read_len, read_buffer, recving, mode, pending, chan, reader,
          received, is_closed, send_closed>>

LenBytes == 4

Written(k, n) == [i \in 1..(LenBytes + n) |-> <<k, i>>]
Data(k) == [i \in 1..sent[k] |-> <<k, LenBytes + i>>]

(* u32::from_be_bytes; any other bytes are some other number, here 0. *)
LengthOf(bytes) ==
  LET k == bytes[1][1] IN IF bytes = Written(k, 0) THEN sent[k] ELSE 0

First(s, n) == SubSeq(s, 1, n)
After(s, n) == SubSeq(s, n + 1, Len(s))

-----------------------------------------------------------------------------
(* Link::send and write_chunk; an error sets the flag.  A broken           *)
(* connection may also take the bytes, which are then lost: nothing here   *)
(* tells that from no send at all.                                         *)
Send(n) ==
  /\ IF broken
     THEN send_closed' = TRUE /\ UNCHANGED <<sent, stream>>
     ELSE /\ Len(sent) < MaxChunks
          /\ sent' = Append(sent, n)
          /\ stream' = stream \o Written(Len(sent) + 1, n)
          /\ UNCHANGED send_closed
  /\ UNCHANGED <<broken, read_len, read_buffer, recving, mode, pending, chan, reader, received,
                 is_closed>>

(* The connection ends, and what is under way is lost from some byte on. *)
Break ==
  /\ ~broken
  /\ broken' = TRUE
  /\ \E n \in 0..Len(stream) : stream' = First(stream, n)
  /\ UNCHANGED <<sent, read_len, read_buffer, recving, mode, pending, chan, reader, received,
                 is_closed, send_closed>>

(* recv_chunk from one await to the next: the length, then the chunk, as   *)
(* far as the buffer goes.                                                 *)
RecvChunk(length, buffer) ==
  LET parses == length = <<>> /\ Len(buffer) >= LenBytes
      len == IF parses THEN <<LengthOf(First(buffer, LenBytes))>> ELSE length
      rest == IF parses THEN After(buffer, LenBytes) ELSE buffer
  IN  IF len # <<>> /\ len[1] <= Len(rest)
      THEN [len |-> <<>>, buffer |-> After(rest, len[1]), chunk |-> <<First(rest, len[1])>>]
      ELSE [len |-> len, buffer |-> rest, chunk |-> <<>>]

Poll(buffer) ==
  LET r == RecvChunk(read_len, buffer)
  IN  /\ read_len' = r.len
      /\ read_buffer' = r.buffer
      /\ recving' = (r.chunk = <<>>)
      /\ IF mode = "link"
         THEN received' = received \o r.chunk /\ UNCHANGED pending
         ELSE pending' = r.chunk /\ UNCHANGED received

(* Link::recv, and the next turn of the task's loop. *)
Recv ==
  /\ mode \in {"link", "task"} /\ ~recving /\ pending = <<>>
  /\ Poll(read_buffer)
  /\ UNCHANGED <<sent, stream, broken, mode, chan, reader, is_closed, send_closed>>

ReadSome(n) ==
  /\ recving
  /\ n \in 1..Len(stream)
  /\ Poll(read_buffer \o First(stream, n))
  /\ stream' = After(stream, n)
  /\ UNCHANGED <<sent, broken, mode, chan, reader, is_closed, send_closed>>

(* Mutant: the task returns and tells nobody. *)
ReadEndSilent ==
  /\ recving /\ broken /\ stream = <<>>
  /\ recving' = FALSE
  /\ mode' = IF mode = "task" THEN "done" ELSE mode
  /\ is_closed' = (is_closed \/ mode = "link")
  /\ UNCHANGED <<sent, stream, broken, read_len, read_buffer, pending, chan, reader, received,
                 send_closed>>

(* The socket returns an error or no bytes. *)
ReadEnd ==
  /\ recving /\ broken /\ stream = <<>>
  /\ recving' = FALSE
  /\ mode' = IF mode = "task" THEN "done" ELSE mode
  /\ is_closed' = TRUE
  /\ UNCHANGED <<sent, stream, broken, read_len, read_buffer, pending, chan, reader, received,
                 send_closed>>

(* The future of recv is dropped at its await. *)
DropRecv ==
  /\ mode = "link" /\ recving
  /\ recving' = FALSE
  /\ UNCHANGED <<sent, stream, broken, read_len, read_buffer, mode, pending, chan, reader, received,
                 is_closed, send_closed>>

(* Mutant: only the bytes are moved. *)
TakeReaderBytes ==
  /\ mode = "link" /\ ~recving
  /\ mode' = "task"
  /\ reader' = "read"
  /\ read_len' = <<>>
  /\ UNCHANGED <<sent, stream, broken, read_buffer, recving, pending, chan, received, is_closed,
                 send_closed>>

(* take_reader: read_len and read_buffer go with the socket. *)
TakeReader ==
  /\ mode = "link" /\ ~recving
  /\ mode' = "task"
  /\ reader' = "read"
  /\ UNCHANGED <<sent, stream, broken, read_len, read_buffer, recving, pending, chan, received,
                 is_closed, send_closed>>

(* tx.send(chunk) of the task; it fails when the TcpLinkReader is gone. *)
Forward ==
  /\ pending # <<>>
  /\ \/ /\ reader = "read" /\ Len(chan) < ChanSize
        /\ chan' = chan \o pending
        /\ UNCHANGED <<mode, is_closed>>
     \/ /\ reader = "dropped"
        /\ mode' = "done" /\ is_closed' = TRUE
        /\ UNCHANGED chan
  /\ pending' = <<>>
  /\ UNCHANGED <<sent, stream, broken, read_len, read_buffer, recving, reader, received,
                 send_closed>>

(* TcpLinkReader::read, called by the reader task of the LinkEntry. *)
ReadChunk ==
  /\ reader = "read" /\ chan # <<>>
  /\ received' = Append(received, Head(chan))
  /\ chan' = Tail(chan)
  /\ UNCHANGED <<sent, stream, broken, read_len, read_buffer, recving, mode, pending, reader,
                 is_closed, send_closed>>

(* The reader task of the LinkEntry returns: it cannot deserialize a       *)
(* chunk, the core has dropped its stream, or read has failed.             *)
DropReader ==
  /\ reader = "read"
  /\ reader' = "dropped"
  /\ chan' = <<>>
  /\ UNCHANGED <<sent, stream, broken, read_len, read_buffer, recving, mode, pending, received,
                 is_closed, send_closed>>

-----------------------------------------------------------------------------
(* connect and listen: both ends of a new connection. *)
Init ==
  /\ sent = <<>> /\ stream = <<>> /\ broken = FALSE
  /\ read_len = <<>> /\ read_buffer = <<>> /\ recving = FALSE
  /\ mode = "link" /\ pending = <<>> /\ chan = <<>> /\ reader = "none"
  /\ received = <<>> /\ is_closed = FALSE /\ send_closed = FALSE

Next ==
  \/ \E n \in Lengths : Send(n)
  \/ Break
  \/ Recv
  \/ \E n \in 1..ReadSize : ReadSome(n)
  \/ ReadEnd
  \/ DropRecv
  \/ TakeReader
  \/ Forward
  \/ ReadChunk
  \/ DropReader

Spec == Init /\ [][Next]_vars

(* The task of take_reader between its sends.  The runtime polls it, and   *)
(* the reader task of the LinkEntry, whenever they can go on: the three    *)
(* actions ReaderTask, Forward and ReadChunk are weakly fair.              *)
ReaderTask == mode = "task" /\ (Recv \/ ReadEnd \/ \E n \in 1..ReadSize : ReadSome(n))

-----------------------------------------------------------------------------
(* Link::send of src/links/link.rs: what is sent "must be read by the      *)
(* other side with the same chunk boundaries".  Whatever pieces the bytes  *)
(* come in, with futures of recv dropped half-way and the reader taken in  *)
(* the middle of a chunk, the chunks read are the first ones sent.         *)
ReadIsPrefix ==
  /\ Len(received) <= Len(sent)
  /\ \A k \in DOMAIN received : received[k] = Data(k)

(* A chunk that was sent is read, unless the connection breaks or nobody   *)
(* reads any more; and is_closed, which makes LinkManager::upkeep drop the *)
(* link, is set in the end when the connection breaks under the task.      *)
ReadOrClosed ==
  /\ \A k \in 1..MaxChunks :
       (Len(sent) >= k /\ reader = "read") ~> (Len(received) >= k \/ broken \/ reader = "dropped")
  /\ (broken /\ mode = "task") ~> is_closed

=============================================================================
