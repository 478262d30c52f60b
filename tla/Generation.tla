----------------------------- MODULE Generation -----------------------------
(***************************************************************************)
(* class Generation of src/sources/server/src/api/gzipFeed.js: one deflate *)
(* stream and what has gone into it, as a record.                          *)
(*                                                                         *)
(* Texts stand for bytes.  A deflate stream flushed to a byte boundary     *)
(* decodes to exactly what was written into it, so `written' is both the   *)
(* compressed output and what a reader decodes from it.  The checksum and  *)
(* the length of the gzip trailer are a digest of the texts they were      *)
(* computed over: `sum'.                                                   *)
(***************************************************************************)
EXTENDS Sequences

Fresh == [written  |-> <<>>,   \* compressed and collected
          chunk    |-> <<>>,   \* inside the compressor
          pending  |-> <<>>,   \* appended, not yet handed to the compressor
          sum      |-> <<>>,   \* what crc and plainBytes have counted
          flushing |-> FALSE]  \* the compressor works on chunk

Generations(T) == [written : Seq(T), chunk : Seq(T), pending : Seq(T),
                   sum : Seq(T), flushing : BOOLEAN]

\* append(), once for each of the texts.
Appended(g, texts) ==
    [g EXCEPT !.pending = @ \o texts, !.sum = @ \o texts]

\* flush(), one turn of its loop: everything pending goes in as one chunk.
FlushBegun(g) ==
    [g EXCEPT !.chunk = g.pending, !.pending = <<>>, !.flushing = TRUE]

\* The compressor calls back; its output has been collected.
FlushEnded(g) ==
    [g EXCEPT !.written = @ \o g.chunk, !.chunk = <<>>, !.flushing = FALSE]

\* body(): the bytes that have come out, and a trailer for all that went in.
Body(g) == [coding |-> "gzip", texts |-> g.written, sum |-> g.sum]

\* Everything appended, wherever it has got to.
Content(g) == g.written \o g.chunk \o g.pending
=============================================================================
