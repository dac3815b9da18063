---------------------------- MODULE RouterBatches ----------------------------
(***************************************************************************)
(* run_batches of pipelines/common/engine.py: the in-memory path through   *)
(* the engine, as the generator it is.  Its consumer keeps the batches it  *)
(* is given, which hold references to the counters and the lists that the  *)
(* generator goes on working with; object stands for that heap.            *)
(***************************************************************************)
EXTENDS TdsEngine, Places, FiniteSetsExt, SequencesExt

CONSTANT BatchSize      \* the contract's batch.size

ASSUME BatchSizeIsPositive == BatchSize \in Nat \ {0}

VARIABLES
    mapping,    \* the contract in use, as it was loaded
    input,      \* the lines that run_batches iterates over
    next,       \* the line it comes to next
    object,     \* the counters and lists it has made, one entry per rebinding
    current,    \* the entry its names are bound to
    yielded,    \* what the consumer holds: batch ids and entries
    generator   \* "unstarted", "running", "exhausted" or "raised"

batchVars == <<input, next, object, current, yielded, generator>>

Empty == [srcRead |-> 0, written |-> 0, rejected |-> 0, documents |-> <<>>, rejects |-> <<>>]
Balances(counters) == counters.srcRead = counters.written + counters.rejected

BatchInit ==
    /\ input = <<>> /\ next = 1
    /\ object = <<Empty>> /\ current = 1
    /\ yielded = <<>> /\ generator = "unstarted"

(* Counters.count and the two appends.                                     *)
Counted(batch, outcome) ==
    IF outcome.door = "written"
    THEN [batch EXCEPT !.srcRead = @ + 1, !.written = @ + 1,
                       !.documents = Append(@, outcome.line)]
    ELSE [batch EXCEPT !.srcRead = @ + 1, !.rejected = @ + 1,
                       !.rejects = Append(@, [line |-> outcome.line, reason |-> outcome.reason])]

Skipped(line) == IsBlank(line) \/ IsHeader(mapping, line)

StartBatches(lines) ==
    /\ generator = "unstarted"
    /\ input' = lines /\ generator' = "running"
    /\ UNCHANGED <<next, object, current, yielded>>

SkipLine ==
    /\ generator = "running" /\ next <= Len(input)
    /\ Skipped(input[next])
    /\ next' = next + 1
    /\ UNCHANGED <<input, object, current, yielded, generator>>

(* Mutant: the lists are cleared and not replaced.                         *)
Yield_ClearsLists(batch) ==
    /\ yielded' = Append(yielded, [id |-> Len(yielded), entry |-> current])
    /\ object' = [object EXCEPT ![current] = Empty]
    /\ UNCHANGED current

(* The consumer takes the batch; the names are bound to new objects.       *)
Yield(batch) ==
    /\ yielded' = Append(yielded, [id |-> Len(yielded), entry |-> current])
    /\ object' = Append([object EXCEPT ![current] = batch], Empty)
    /\ current' = Len(object) + 1

(* Mutant: a batch is full when it has read enough lines.                  *)
IsFull_OfLines(batch) == batch.srcRead >= BatchSize

(* A batch is so many written records, whatever was rejected beside them.  *)
IsFull(batch) == Len(batch.documents) >= BatchSize

RouteNext ==
    /\ generator = "running" /\ next <= Len(input)
    /\ ~Skipped(input[next])
    /\ LET outcome == Route(mapping, input[next])
           batch == Counted(object[current], outcome)
       IN  /\ outcome.reason # Uncaught
           /\ IF IsFull(batch) THEN Yield(batch)
              ELSE object' = [object EXCEPT ![current] = batch] /\ UNCHANGED <<current, yielded>>
    /\ next' = next + 1
    /\ UNCHANGED <<input, generator>>

(* An exception that is no RecordError goes through to the consumer.       *)
RouteRaises ==
    /\ generator = "running" /\ next <= Len(input)
    /\ ~Skipped(input[next])
    /\ Route(mapping, input[next]).reason = Uncaught
    /\ generator' = "raised"
    /\ UNCHANGED <<input, next, object, current, yielded>>

HasTail == object[current].srcRead # 0

EndOfInput ==
    /\ generator = "running" /\ next > Len(input)
    /\ generator' = "exhausted"
    /\ yielded' = IF HasTail THEN Append(yielded, [id |-> Len(yielded), entry |-> current])
                             ELSE yielded
    /\ UNCHANGED <<input, next, object, current>>

-----------------------------------------------------------------------------
Batch(b) == object[yielded[b].entry]

(* A batch that has been handed over does not change under its consumer:   *)
(* list(run_batches(..)) reads the documents of the first batch after the  *)
(* last one was made.                                                      *)
YieldedBatchesStable ==
    [][\A b \in DOMAIN yielded : Batch(b)' = Batch(b)]_<<object, yielded>>

(* Each batch closes its own equation, and each but the tail has exactly   *)
(* BatchSize documents: the equation is checked per batch and per run.     *)
BatchesClose ==
    /\ \A b \in DOMAIN yielded :
          /\ Balances(Batch(b))
          /\ Batch(b).written = Len(Batch(b).documents)
          /\ Batch(b).rejected = Len(Batch(b).rejects)
          /\ yielded[b].id = b - 1
    /\ \A b \in DOMAIN yielded :
          b < Len(yielded) \/ generator # "exhausted" => Len(Batch(b).documents) = BatchSize

RoutedTo(door) ==
    ElementsAt(input, {i \in 1..(next - 1) :
                          ~Skipped(input[i]) /\ Route(mapping, input[i]).door = door})

Least(m, n) == IF m <= n THEN m ELSE n

(* The batches are the written records in order, cut every BatchSize of    *)
(* them; no record is in two batches or in none, and every rejected one is *)
(* in a batch, in order, when the generator is exhausted.                  *)
BatchesPartition ==
    LET written == RoutedTo("written")
    IN  /\ \A b \in DOMAIN yielded :
              Batch(b).documents = SubSeq(written, (b - 1) * BatchSize + 1,
                                          Least(b * BatchSize, Len(written)))
        /\ generator = "exhausted" =>
              /\ Len(written) = MapThenSumSet(LAMBDA b : Batch(b).written, DOMAIN yielded)
              /\ RoutedTo("rejected") = FlattenSeq(
                    [b \in DOMAIN yielded |->
                        [k \in DOMAIN Batch(b).rejects |-> Batch(b).rejects[k].line]])
=============================================================================
