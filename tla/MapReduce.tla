------------------------------ MODULE MapReduce ------------------------------
(***************************************************************************)
(* The counting jobs of homeworks 5, 6 and 11: OutDegree and WordCount on  *)
(* Hadoop, word_count.py on Spark, SimpleApp.py on Spark Streaming.  A     *)
(* line is a sequence of tokens.                                           *)
(***************************************************************************)
EXTENDS Integers, Sequences, FiniteSets
Ext == INSTANCE SequencesExt

\* OutDegreeMapper: "a source target w" gives (source, 1).
OutDegreeMapper(line) == IF Len(line) >= 3 THEN <<<<line[2], 1>>>> ELSE << >>

\* TokenizerMapper; the flatMap and map of the two Spark programs.
TokenizerMapper(line) == [t \in 1 .. Len(line) |-> <<line[t], 1>>]

\* Mutant: the values are counted.
ReduceCounts(values) == Len(values)

\* OutDegreeReducer and IntSumReducer, also used as combiners; lambda a, b: a + b.
Reduce(values) == Ext!FoldLeft(LAMBDA a, b : a + b, 0, values)

Values(pairs, key) ==
    LET ofKey == SelectSeq(pairs, LAMBDA kv : kv[1] = key)
    IN  [i \in 1 .. Len(ofKey) |-> ofKey[i][2]]
Keys(pairs) == {kv[1] : kv \in Ext!ToSet(pairs)}

\* What a map task of the framework sends for its lines: one pair per call of
\* the mapper, or one per key if it runs the combiner.
Combined(pairs) ==
    LET keys == Ext!SetToSeq(Keys(pairs))
    IN  [i \in 1 .. Len(keys) |-> <<keys[i], Reduce(Values(pairs, keys[i]))>>]
MapTask(mapped, combine) ==
    LET pairs == Ext!FlattenSeq(mapped) IN IF combine THEN Combined(pairs) ELSE pairs

(* The job, when the mapper makes the pairs mapped[l] of line l: the lines *)
(* of split s go to a map task that combines or not, and what the tasks    *)
(* send is reduced key by key.                                             *)
Job(mapped, splitOf, combines) ==
    LET LinesOf(s) == LET own == SelectSeq([l \in 1 .. Len(mapped) |-> l], LAMBDA l : splitOf[l] = s)
                      IN  [i \in 1 .. Len(own) |-> mapped[own[i]]]
        splits == Ext!SetToSeq(DOMAIN combines)
        sent == Ext!FlattenSeq([i \in 1 .. Len(splits) |->
                    MapTask(LinesOf(splits[i]), combines[splits[i]])])
    IN  [key \in Keys(sent) |-> Reduce(Values(sent, key))]
=============================================================================
