---------------------------- MODULE LargeResults ----------------------------
(***************************************************************************)
(* What the performance tools do to a table or a list that may be large:   *)
(* its integers are stored in as few bits as hold them, it is processed in *)
(* chunks when memory is short, cut into pages, and compressed.  All of it *)
(* is computed from one table, which grows, and from the memory in use.    *)
(* Sizes are in rows.  Columns of floats and of texts are converted by     *)
(* pandas, and have no part here.                                          *)
(***************************************************************************)
EXTENDS Integers, Sequences, FiniteSets, SequencesExt, FiniteSetsExt, Selection

CONSTANTS
  Values,       \* integers a row may hold
  Dated,        \* those whose rows can be written as JSON only with default=str
  ChunkSize,    \* 10000
  MaxPageSize,  \* 1000
  MinSize,      \* min_size_bytes of a compression
  MaxRows       \* bound: rows

LargeAssumption ==
  /\ Values \subseteq Int /\ Dated \subseteq Values
  /\ ChunkSize \in Nat \ {0} /\ MaxPageSize \in Nat \ {0} /\ MinSize \in Nat /\ MaxRows \in Nat

VARIABLES
  rows,   \* the table
  short   \* memory use is above the warning threshold, or the table larger than 100 MB

vars == <<rows, short>>

Grow(v) ==
  /\ Len(rows) < MaxRows
  /\ rows' = Append(rows, v)
  /\ UNCHANGED short

MemoryChanges == short' = ~short /\ UNCHANGED rows

Init == rows = <<>> /\ short = FALSE

Next == MemoryChanges \/ \E v \in Values : Grow(v)

Spec == Init /\ [][Next]_vars

---------------------------------------------------------------------------
(* Memory.                                                                 *)

\* The values of a column are in the range of so many bits, given its ends.
Within(column, low, high) == \A v \in ToSet(column) : low <= v /\ v <= high

\* optimize_dtypes, of a column of 64 bits: the first range that holds the values.
Bits(column) ==
  IF Within(column, -128, 127) THEN 8
  ELSE IF Within(column, -32768, 32767) THEN 16
  ELSE IF Within(column, -2147483647 - 1, 2147483647) THEN 32
  ELSE 64

\* What a column of so many bits makes of a value.
Wrapped(v, bits) == ((v + 2 ^ (bits - 1)) % 2 ^ bits) - 2 ^ (bits - 1)

\* A column that needs 64 bits is left as it is.
OptimizeDtypes ==
  IF Bits(rows) = 64 THEN rows ELSE [n \in DOMAIN rows |-> Wrapped(rows[n], Bits(rows))]

\* process_dataframe_chunks.
Chunks ==
  [n \in 1..((Len(rows) + ChunkSize - 1) \div ChunkSize) |->
     SubSeq(rows, (n - 1) * ChunkSize + 1, Min({n * ChunkSize, Len(rows)}))]

\* aggregate_chunked_results, by the kind of the first result.
Aggregated(results) ==
  IF results = <<>> THEN [kind |-> "none"]
  ELSE IF results[1].kind \in {"frame", "list"}
    THEN [kind |-> results[1].kind, value |-> Flattened([n \in DOMAIN results |-> results[n].value])]
    ELSE [kind |-> "list", value |-> results]

\* Functions a caller may pass: three work row by row, the last makes a number of a table.
Processors == {"same", "low", "listed", "count"}
Processed(processor, t) ==
  CASE processor = "same" -> [kind |-> "frame", value |-> t]
    [] processor = "low" -> [kind |-> "frame", value |-> Selected(t, {n \in DOMAIN t : t[n] < 0})]
    [] processor = "listed" -> [kind |-> "list", value |-> [n \in DOMAIN t |-> -t[n]]]
    [] processor = "count" -> [kind |-> "number", value |-> Len(t)]

ProcessLargeDataset(processor) ==
  IF short THEN Aggregated([n \in DOMAIN Chunks |-> Processed(processor, Chunks[n])])
           ELSE Processed(processor, rows)

---------------------------------------------------------------------------
(* Pages and compression.                                                  *)

\* s[from:to] of Python: a negative index counts from the end.
PlaceIn(s, i) == IF i < 0 THEN Max({0, Len(s) + i}) ELSE Min({i, Len(s)})
Slice(s, from, to) == SubSeq(s, PlaceIn(s, from) + 1, PlaceIn(s, to))

\* Mutant: a last page that is not full is not counted.
FullPages(total, size) == total \div size

TotalPages(total, size) == (total + size - 1) \div size

\* paginate_data, with the size as it is parsed; one of 0 is an error.
Paginated(page, asked, total) ==
  LET size == Min({asked, MaxPageSize}) IN
  [data |-> Slice(rows, (page - 1) * size, page * size),
   next |-> page < TotalPages(total, size), previous |-> page > 1]

\* The encodings in the order of supported_encodings; accepted are those whose name occurs in
\* the header accept-encoding.
PreferredEncoding(accepted) ==
  CASE "gzip" \in accepted -> "gzip"
    [] "deflate" \in accepted /\ "gzip" \notin accepted -> "deflate"
    [] OTHER -> "identity"

ShouldCompress(data, accepted) == Len(data) >= MinSize /\ accepted \cap {"gzip", "deflate"} # {}

\* process_response: only what is compressed is written with default=str.
Response(page, size, accepted) ==
  LET data == Paginated(page, size, Len(rows)).data IN
  IF ShouldCompress(data, accepted)
    THEN [encoding |-> PreferredEncoding(accepted), data |-> data]
    ELSE IF ToSet(data) \cap Dated = {} THEN [encoding |-> "identity", data |-> data]
                                        ELSE [encoding |-> "error"]

---------------------------------------------------------------------------
(* Properties.                                                             *)

TypeOK == rows \in Seq(Values) /\ Len(rows) <= MaxRows /\ short \in BOOLEAN

\* No value is changed by being stored in fewer bits.
ValuesKept == OptimizeDtypes = rows

\* The result of a processor does not depend on the memory in use if it works row by row
\* and there are rows; of an empty table it then is nothing.  One that makes a number of a
\* table does depend on it, even for a table of one chunk, but the numbers of the chunks
\* sum up to that of the table.
ChunksAgree ==
  LET counted == ProcessLargeDataset("count") IN
  /\ \A processor \in Processors \ {"count"} :
       ProcessLargeDataset(processor) =
         (IF short /\ rows = <<>> THEN [kind |-> "none"] ELSE Processed(processor, rows))
  /\ counted.kind = (IF ~short THEN "number" ELSE IF rows = <<>> THEN "none" ELSE "list")
  /\ counted.kind = "list" => Summed([n \in DOMAIN counted.value |-> counted.value[n].value]) = Len(rows)

\* A client that starts at the first page and goes on as long as there is a next one is
\* given every row once, whatever size it asks for; one that starts before the first page
\* is led to it.  When the caller gives another total, the pages up to that one are told,
\* and hold no other rows.
PagesWhole ==
  \A size \in 1..(MaxPageSize + 1) :
    LET step == Min({size, MaxPageSize})
        last == TotalPages(Len(rows), step)
        Of(page) == Paginated(page, size, Len(rows))
    IN /\ Flattened([n \in 1..last |-> Of(n).data]) = rows
       /\ \A page \in 1..(MaxRows + 1) :
            /\ Of(page).next <=> page * step < Len(rows)
            /\ page > last => Of(page).data = <<>>
            /\ \A total \in 0..(MaxRows + 1) :
                 /\ Paginated(page, size, total).next <=> page * step < total
                 /\ Paginated(page, size, total).data = Of(page).data
       /\ rows # <<>> => \A page \in -2..0 : Of(page).next /\ ~Of(page).previous

\* An answer is encoded only as the client accepts, and what a client is refused for its
\* rows it is given when it accepts a compression and asks for enough rows.
AnswersReadable ==
  \A size \in 1..MaxPageSize, page \in 1..2, accepted \in SUBSET {"gzip", "deflate", "br"} :
    LET answer == Response(page, size, accepted) IN
    /\ answer.encoding \in accepted \cup {"identity", "error"}
    /\ answer.encoding = "error" =>
         \/ Len(Paginated(page, size, Len(rows)).data) < MinSize
         \/ accepted \subseteq {"br"}
    /\ answer.encoding # "error" => answer.data = Paginated(page, size, Len(rows)).data

ResultsWhole == ValuesKept /\ ChunksAgree /\ PagesWhole /\ AnswersReadable

=============================================================================
