---------------------------- MODULE SampleRowKeys ----------------------------
(***************************************************************************)
(* Table::SampleRowKeys (src/table.cc) beside ReadRows: both read through  *)
(* the streams of Filters, under the table's lock.  The draws of the row   *)
(* sample filter are the rows its record keeps.                            *)
(***************************************************************************)
EXTENDS Filters

CONSTANTS
    SampleEvery,    \* sample_every, the inverse of the probability
    LastKey,        \* "last_key"
    NoKey           \* the empty key of the last response

ASSUME SampleAssumption ==
    /\ SampleEvery \in Nat \ {0}
    /\ LastKey # NoKey

VARIABLES
    sampling,   \* the request is a SampleRowKeys
    estimate,   \* row_size_estimate, a cell counting as one
    responses   \* what has been written: a row key and offset_bytes each

sampleVars == <<vars, sampling, estimate, responses>>

SampleInit ==
    /\ Init
    /\ sampling \in BOOLEAN
    /\ sampling => filter.kind = "sample"
    /\ estimate = 0
    /\ responses = <<>>

ReadNext ==
    /\ ~sampling
    /\ Next
    /\ UNCHANGED <<sampling, estimate, responses>>

Response(row, offset) == [row |-> row, offset |-> offset]

Offset == IF responses = <<>> THEN 0 ELSE responses[Len(responses)].offset

(* The first row of the unfiltered table is measured, then the sampled     *)
(* stream is made; an empty table is answered at once.                     *)
Measure ==
    /\ sampling
    /\ pc = "build"
    /\ IF table = {}
       THEN /\ responses' = <<Response(NoKey, 0)>>
            /\ pc' = "sampled"
            /\ UNCHANGED <<stream, estimate>>
       ELSE /\ estimate' = Cardinality(
                    {c \in table : c.row = Show(Settle(TableStream)).row})
            /\ stream' = Settle(Created)
            /\ pc' = "sample"
            /\ UNCHANGED responses
    /\ UNCHANGED <<stored, table, filter, shown, sampling>>

(* Mutant: the stream moves on by a cell.                                  *)
Sample_ByCell ==
    /\ pc = "sample"
    /\ Show(stream) # None
    /\ responses' = Append(responses,
                           Response(Show(stream).row, Offset + SampleEvery * estimate))
    /\ stream' = Advance(stream, "cell")
    /\ UNCHANGED <<stored, table, filter, pc, shown, sampling, estimate>>

(* One response for the row the sampled stream is at.                      *)
Sample ==
    /\ pc = "sample"
    /\ Show(stream) # None
    /\ responses' = Append(responses,
                           Response(Show(stream).row, Offset + SampleEvery * estimate))
    /\ stream' = Advance(stream, "row")
    /\ UNCHANGED <<stored, table, filter, pc, shown, sampling, estimate>>

(* The rows of the largest column family, in memory; with RocksDB, memory  *)
(* has what was written since the start.                                   *)
RowCountEstimates ==
    LET rows == Max({Cardinality({c.row : c \in {d \in table : d.family = f}}) :
                        f \in {c.family : c \in table}})
    IN IF stored THEN 0..rows ELSE {rows}

(* Mutant: the last response repeats the offset.                           *)
Closed_SameOffset(sent) ==
    Append(sent, Response(NoKey, IF sent = <<>> THEN 0 ELSE sent[Len(sent)].offset))

(* The last response, one byte further.                                    *)
Closed(sent) ==
    Append(sent, Response(NoKey, 1 + IF sent = <<>> THEN 0 ELSE sent[Len(sent)].offset))

(* wrote_a_sample is never set to false: where no row was drawn, reading   *)
(* it may give either value, and the stand-in may be left out.             *)
EndSampling ==
    /\ pc = "sample"
    /\ Show(stream) = None
    /\ \E wrote_a_sample \in IF responses = <<>> THEN BOOLEAN ELSE {TRUE},
          rows \in RowCountEstimates :
        responses' = Closed(IF wrote_a_sample THEN responses
                            ELSE <<Response(LastKey, rows * estimate)>>)
    /\ pc' = "sampled"
    /\ UNCHANGED <<stored, table, filter, stream, shown, sampling, estimate>>

SampleNext == ReadNext \/ Measure \/ Sample \/ EndSampling

SampleSpec == SampleInit /\ [][SampleNext]_sampleVars

-----------------------------------------------------------------------------
(* Properties.                                                             *)

(* Each row that was drawn is in the answer once, in order, although the   *)
(* draws are made by a filter that counts rows while the reader skips them *)
(* and the families of the row end at different times.                     *)
DrawnRowsAreSampled ==
    pc = "sampled" =>
        LET rows == {i \in DOMAIN responses : responses[i].row \notin {LastKey, NoKey}}
            drawn == {c.row : c \in {d \in table : d.row \in filter.keep}}
        IN /\ {responses[i].row : i \in rows} = drawn
           /\ \A i, j \in rows : i < j => responses[i].row < responses[j].row

(* "Client test code expects offset_bytes to be strictly increasing"       *)
(* (src/table.cc:915), also when the stand-in is written or left out.      *)
OffsetsIncrease ==
    \A i, j \in DOMAIN responses : i < j => responses[i].offset < responses[j].offset

(* "if they populated the table with at least one row, then at least one   *)
(* row sample is returned" (src/table.cc:885).                             *)
PopulatedTableHasASample ==
    pc = "sampled" /\ table # {} => Len(responses) > 1

=============================================================================
