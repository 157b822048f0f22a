------------------------------ MODULE LogReader ------------------------------
(***************************************************************************)
(* log2bag: LogReader (log_reader.cpp) and main, which opens the bag and   *)
(* writes what the reader returns to it (log2bag.cpp).                     *)
(*                                                                         *)
(* A log file, after its file header, is a sequence of 16-byte chunks: the *)
(* header chunk of an entry, then its payload.  The file may end inside a  *)
(* chunk ("part"), and grow while it is read, as one does that is still    *)
(* recorded.  A payload chunk taken for a header is any header.            *)
(***************************************************************************)
EXTENDS Integers, FiniteSets, SequencesExt

CONSTANTS MaxEntries,  \* bound: entries of a file
          MaxSize      \* bound: chunks of a payload

ASSUME LogAssumption == MaxEntries \in Nat /\ MaxSize \in Nat

\* Entry types that carry a message, those the reader knows and skips (blank,
\* unknown, older and newer ones: one stands for all), and those it does not know.
MessageTypes == {"refbox", "vision"}
Types        == MessageTypes \cup {"other", "unrecognized"}

\* An entry's header: its type, the size of its payload in chunks (-1 stands for a
\* size that cannot be allocated), and whether the payload parses (which is only
\* tried for messages).
Headers == {h \in [type : Types, size : -1 .. MaxSize, parses : BOOLEAN] :
              h.parses \/ h.type \in MessageTypes}

\* The entries a logger writes have a size and, but for damage, a payload that parses.
Entries == {h \in Headers : h.size >= 0}

Chunk(i, e) == <<[kind |-> "header", entry |-> i, header |-> e]>>
                 \o [j \in 1 .. e.size |-> [kind |-> "payload", entry |-> i, header |-> e]]

Chunks(entries) == FlattenSeq([i \in DOMAIN entries |-> Chunk(i, entries[i])])

\* The file as written, and the ways it may have been cut short.
CutAt(chunks, n, part) ==
  IF part /\ n < Len(chunks)
  THEN Append(SubSeq(chunks, 1, n), [chunks[n + 1] EXCEPT !.kind = "part"])
  ELSE SubSeq(chunks, 1, n)

\* The number of chunks that are there in full: only the last one may be a part.
Whole(chunks) ==
  IF chunks # <<>> /\ chunks[Len(chunks)].kind = "part" THEN Len(chunks) - 1
                                                        ELSE Len(chunks)

\* Its size with that of the file header, in units of 8 bytes.
SizeOf(chunks) == 2 + Whole(chunks) + Len(chunks)

VARIABLES header,         \* the file header: absent (no file), short, other or log
          entries,        \* what was logged
          file,           \* the chunks of the file
          log_file_size,  \* its size when the program started
          pos,            \* chunks read so far
          eof,            \* input_stream.eof()
          bad,            \* input_stream.bad()
          counts,         \* entry_type_counts
          bag,            \* the directory of the bag: none, new, or old: there before
          written,        \* messages written to the bag: entry number, 0 for garbage
          status,         \* starting, checked, reading; drawing: in RenderProgressBar,
                          \* for ever; done: main returned 0; failed: it did not
          grown           \* history: the file has grown

fileVars == <<header, entries, file, log_file_size, grown>>
vars == <<fileVars, pos, eof, bad, counts, bag, written, status>>

\* An existing log, or another file, or none.
Init ==
  /\ \/ /\ header = "log"
        /\ entries \in BoundedSeq(Entries, MaxEntries)
        /\ \E n \in 0 .. Len(Chunks(entries)), part \in BOOLEAN :
             file = CutAt(Chunks(entries), n, part)
     \/ header \in {"absent", "short", "other"} /\ entries = <<>> /\ file = <<>>
  /\ log_file_size = SizeOf(file)
  /\ grown = FALSE
  /\ pos = 0
  /\ eof = FALSE
  /\ bad = FALSE
  /\ counts = [t \in Types |-> 0]
  /\ bag \in {"none", "old"}
  /\ written = <<>>
  /\ status = "starting"

-----------------------------------------------------------------------------
(***************************************************************************)
(* main, up to its loop.                                                   *)
(***************************************************************************)
\* The file is opened and the reader constructed: it throws, out of main, unless the
\* file header is that of a log.
CheckHeaderLength ==  \* mutant: the bytes of the header are not compared
  /\ status = "starting"
  /\ status' = IF header \in {"other", "log"} THEN "checked" ELSE "failed"
  /\ UNCHANGED <<fileVars, pos, eof, bad, counts, bag, written>>

CheckHeader ==
  /\ status = "starting"
  /\ status' = IF header = "log" THEN "checked" ELSE "failed"
  /\ UNCHANGED <<fileVars, pos, eof, bad, counts, bag, written>>

\* The bag gets the name of the log; rosbag2 throws if there is one already.
OpenBag ==
  /\ status = "checked"
  /\ bag' = IF bag = "old" THEN "old" ELSE "new"
  /\ status' = IF bag = "old" THEN "failed" ELSE "reading"
  /\ UNCHANGED <<fileVars, pos, eof, bad, counts, written>>

\* The rest of what is logged is written to the file; what comes after the end has
\* been seen is of no interest.
Grow ==
  /\ status = "reading" /\ ~eof
  /\ file # Chunks(entries)
  /\ file' = Chunks(entries)
  /\ grown' = TRUE
  /\ UNCHANGED <<header, entries, log_file_size, pos, eof, bad, counts, bag, written, status>>

-----------------------------------------------------------------------------
(***************************************************************************)
(* ExtractNextEntry.                                                       *)
(***************************************************************************)
\* What the next header read may say: the header that is there or, in the middle
\* of a payload, anything.
HeadersAt(i) == IF file[i].kind = "header" THEN {file[i].header} ELSE Headers

\* Whole chunks that follow chunk i.
ChunksAfter(i) == Whole(file) - i

\* The loop goes on until eof, and a stream that is not bad is read.
Reads == status = "reading" /\ ~eof /\ ~bad

\* A header read that finds nothing, or less than a header: the end of the file.
ReadPastEndUnlatched ==  \* mutant: the loop ends at a byte count, missed by a partial chunk
  /\ Reads
  /\ pos >= Whole(file)
  /\ eof' = (pos = Len(file))
  /\ UNCHANGED <<fileVars, pos, bad, counts, bag, written, status>>

ReadPastEnd ==
  /\ Reads
  /\ pos >= Whole(file)
  /\ eof' = TRUE
  /\ pos' = Len(file)
  /\ UNCHANGED <<fileVars, bad, counts, bag, written, status>>

ReadsHeader(h) ==
  /\ Reads
  /\ pos < Whole(file)
  /\ h \in HeadersAt(pos + 1)

\* An entry type out of range: the header is given up, its payload is not skipped.
UnrecognizedEntry(h) ==
  /\ ReadsHeader(h)
  /\ h.type = "unrecognized"
  /\ pos' = pos + 1
  /\ UNCHANGED <<fileVars, eof, bad, counts, bag, written, status>>

Counted(h) ==
  /\ h.type # "unrecognized"
  /\ counts' = [counts EXCEPT ![h.type] = @ + 1]

\* An error of the medium, in the header of an entry or in its payload.  From then on
\* every read fails at once, without reaching the end: the loop goes on, for ever.
ReadFails ==
  /\ Reads
  /\ bad' = TRUE
  /\ \/ UNCHANGED counts
     \/ \E h \in Headers : ReadsHeader(h) /\ Counted(h)
  /\ UNCHANGED <<fileVars, pos, eof, bag, written, status>>

\* A size that cannot be allocated throws: GetNextMessage returns nullopt.
UnallocatableEntry(h) ==
  /\ ReadsHeader(h)
  /\ Counted(h)
  /\ h.size = -1
  /\ pos' = pos + 1
  /\ status' = "done"
  /\ UNCHANGED <<fileVars, eof, bad, bag, written>>

\* A payload that goes beyond the end of the file.
TruncatedEntrySought(h) ==  \* mutant: the payload is skipped by its size, not read
  /\ ReadsHeader(h)
  /\ Counted(h)
  /\ h.size > ChunksAfter(pos + 1)
  /\ pos' = pos + 1 + h.size
  /\ UNCHANGED <<fileVars, eof, bad, bag, written, status>>

TruncatedEntry(h) ==
  /\ ReadsHeader(h)
  /\ Counted(h)
  /\ h.size > ChunksAfter(pos + 1)
  /\ eof' = TRUE
  /\ pos' = Len(file)
  /\ UNCHANGED <<fileVars, bad, bag, written, status>>

\* RenderProgressBar fills 20 characters with '=' and then with ' '.  The number of
\* the latter is unsigned: if more are filled the spaces do not end before 2^64.
BarWidth == 20

FilledUntitled(i) ==  \* mutant: the size is that of the entries, without the file header
  (((2 * (1 + i) * 100) \div (log_file_size - 1)) * BarWidth) \div 100

Filled(i) == (((2 * (1 + i) * 100) \div log_file_size) * BarWidth) \div 100

\* What main writes for a message: the entry it is, or garbage if it is none.
MessageAt(i) == IF file[i].kind = "header" THEN file[i].entry ELSE 0

\* A message that parses is returned to main, which draws the bar and writes it,
\* unless that throws.
Returned(i, end) ==
  \/ /\ Filled(end) > BarWidth
     /\ status' = "drawing"
     /\ UNCHANGED written
  \/ /\ Filled(end) <= BarWidth
     /\ \/ written' = Append(written, MessageAt(i)) /\ UNCHANGED status
        \/ status' = "failed" /\ UNCHANGED written

\* A whole entry; those that are no message or do not parse are passed by.
WholeEntryUnskipped(h) ==  \* mutant: the payload of a type that is skipped stays
  /\ ReadsHeader(h)
  /\ Counted(h)
  /\ h.size \in 0 .. ChunksAfter(pos + 1)
  /\ pos' = pos + 1 + (IF h.type \in MessageTypes THEN h.size ELSE 0)
  /\ IF h.type \in MessageTypes /\ h.parses THEN Returned(pos + 1, pos')
                                           ELSE UNCHANGED <<written, status>>
  /\ UNCHANGED <<fileVars, eof, bad, bag>>

WholeEntry(h) ==
  /\ ReadsHeader(h)
  /\ Counted(h)
  /\ h.size \in 0 .. ChunksAfter(pos + 1)
  /\ pos' = pos + 1 + h.size
  /\ IF h.type \in MessageTypes /\ h.parses THEN Returned(pos + 1, pos')
                                           ELSE UNCHANGED <<written, status>>
  /\ UNCHANGED <<fileVars, eof, bad, bag>>

\* GetNextMessage's loop ends at the end of the file.
LoopEnds ==
  /\ status = "reading" /\ eof
  /\ status' = "done"
  /\ UNCHANGED <<fileVars, pos, eof, bad, counts, bag, written>>

Main ==
  \/ CheckHeader
  \/ OpenBag
  \/ ReadPastEnd
  \/ LoopEnds
  \/ \E h \in Headers : \/ UnrecognizedEntry(h)
                        \/ UnallocatableEntry(h)
                        \/ TruncatedEntry(h)
                        \/ WholeEntry(h)

Next == Main \/ ReadFails \/ Grow

Spec == Init /\ [][Next]_vars

FairSpec == Spec /\ WF_vars(Main)

-----------------------------------------------------------------------------
(***************************************************************************)
(* Properties.                                                             *)
(***************************************************************************)
FileChunks(logged) ==
  [kind : {"header", "payload", "part"}, entry : DOMAIN logged, header : Entries]

TypeOK ==
  /\ header \in {"absent", "short", "other", "log"}
  /\ entries \in Seq(Entries)
  /\ file \in Seq(FileChunks(entries))
  /\ log_file_size \in Nat
  /\ grown \in BOOLEAN
  /\ pos \in 0 .. Len(file)
  /\ eof \in BOOLEAN
  /\ bad \in BOOLEAN
  /\ counts \in [Types -> Nat]
  /\ bag \in {"none", "new", "old"}
  /\ written \in Seq(0 .. Len(entries))
  /\ status \in {"starting", "checked", "reading", "drawing", "done", "failed"}

Recognized == \A i \in DOMAIN entries : entries[i].type # "unrecognized"

\* Is entry i in the file with all of its payload?
Kept(i) == Cardinality({j \in DOMAIN file : file[j].entry = i /\ file[j].kind # "part"})
             = 1 + entries[i].size

\* The entries that should be in the bag.
Translatable == {i \in DOMAIN entries : /\ entries[i].type \in MessageTypes
                                       /\ entries[i].parses
                                       /\ Kept(i)}

\* The bag holds, in the order of the log and once each, the messages in question.
Holds(messages) ==
  /\ \A m, n \in DOMAIN written : m < n => written[m] < written[n]
  /\ Range(written) = messages

\* Of a log of entry types the reader knows the bag holds, whatever happens, the
\* first messages, in order, no message twice and none invented; and all of them when
\* the program succeeds, wherever the file was cut off and also if it has grown.
TranslatesKnownLog ==
  Recognized => /\ \E k \in 0 .. Len(entries) : Holds({i \in Translatable : i <= k})
                /\ status = "done" => Holds(Translatable)

\* Only a log makes a bag, and a bag that was there before is left as it was.
OnlyLogsMakeBags ==
  /\ bag = "new" => header = "log"
  /\ bag # "new" => written = <<>>

\* The progress bar ends, unless the file outgrows the size it had at the start.
BarEnds == status = "drawing" => grown

\* The program stops at the end of every file, damaged or not, that can be read and
\* is not still written.
Terminates == <>(status \in {"done", "failed"} \/ bad \/ grown)

\* "Translated entries:" (log2bag.cpp:111): the numbers printed are those of the
\* entries that were translated.
PrintsWhatWasTranslated ==
  status = "done" => counts["refbox"] + counts["vision"] = Len(written)

-----------------------------------------------------------------------------
(***************************************************************************)
(* The inductive invariant.                                                *)
(***************************************************************************)
\* The file is a beginning of what is logged, but for a part of the chunk after it.
IsBeginning(chunks, logged) ==
  /\ Len(chunks) <= Len(logged)
  /\ \A j \in 1 .. Whole(chunks) : chunks[j] = logged[j]

FileInv ==
  /\ IsBeginning(file, Chunks(entries))
  /\ log_file_size > 0
  /\ grown \/ log_file_size = SizeOf(file)

\* The reader is among the whole chunks until it has seen the end.
ReaderInv ==
  /\ ~eof => pos <= Whole(file)
  /\ status \in {"starting", "checked"} => pos = 0 /\ ~eof /\ bag # "new"
  /\ header # "log" => status \in {"starting", "failed"} /\ bag # "new"
  /\ status \in {"reading", "drawing", "done"} => bag = "new"
  /\ bag # "new" => written = <<>>

\* The reader stands behind the first k entries.
StandsBehind(k) == \A j \in DOMAIN Chunks(entries) : Chunks(entries)[j].entry <= k <=> j <= pos

\* Of a log of known types the messages of the entries behind it are in the bag, and at
\* the end there are no others.
MessagesInv ==
  Recognized =>
    /\ \E k \in 0 .. Len(entries) : Holds({i \in Translatable : i <= k})
    /\ status \in {"starting", "checked", "reading"} /\ ~eof =>
         \E k \in 0 .. Len(entries) :
           StandsBehind(k) /\ Holds({i \in Translatable : i <= k})
    /\ status = "done" \/ (status = "reading" /\ eof) => Holds(Translatable)

IInv == TypeOK /\ FileInv /\ ReaderInv /\ MessagesInv /\ BarEnds
=============================================================================
