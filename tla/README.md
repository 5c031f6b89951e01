# Verification of the DataSystems column store

A main-memory column store in C: a server process that keeps databases of
tables of integer columns, and a client that sends it one command line at a
time. This directory holds TLA+ models of its parts, the TLC configurations
that check them on small instances, and proofs that TLAPS checks. Paths below
are relative to the repository; `src/` is its only source directory.

## 1. Inventory

| Component | Source | State | Operations | Interacts with |
|---|---|---|---|---|
| server and session | `server.c` | base column table (`server_context`, 32 slots), one client's pool (`client_context`, 128 slots), run flag | accept a client, copy the catalog in, serve commands, copy it out | parser, executor, client (messages) |
| parser | `parse.c`, `utils.c` | `is_batching`, a static flag that outlives a client | turns a line into a `DbOperator`, frees the handle it will define, queues batched selects | variable pool, shared scan |
| shared scan | `batch.c`, `dsutil.c`, `db_manager.c` 467-586 | `task_array`, thread pool | collect, run on up to 16 threads, publish | variable pool; threads share the task array |
| variable pool and catalog | `db_manager.c`, `client_context.c` | names to base columns, position vectors, results, scalars; names of databases and tables | add, replace, look up, free, copy between server and client | every operator |
| executor | `execute.c` | none of its own but two static print cursors | one function per command | all below |
| relational operations | `execute.c` 313-532 | columns (`data`, `col_size`), `table_length`, capacity | load, insert, update, delete | index maintenance |
| index maintenance | `indexop.c` | sorted copies, clustered order, B-trees | build, insert into, delete from, update | B+ tree, sort |
| B+ tree | `btree.c` | nodes | search, insert with splits, bulk load | |
| selects, fetch, aggregates | `select.c`, `fetch.c`, `aggregate.c` | none | loops over columns and results, searches in indexes | index maintenance, B+ tree |
| sort | `sort.c` | none | merge sort with positions | |
| joins | `join.c` | none | nested loop, sort merge, hash, grace | hash table |
| hash table | `hash_table.c` | slots, chains, counters | allocate, put, get, erase, deallocate | |
| printing and loading protocol | `execute.c` 909-1295, `client.c` | cursors, status INCOMPLETE | results and load data cross in chunks | client, server |
| persistence | `ioutils.c`, `execute.c` 32-89, 800-830 | catalog file, one file per column and index | read at startup, written at shutdown | catalog |
| client | `client.c` | none | sends a line, waits for the answer | server |

Commands of one client are executed one after another by the server's only
thread. Threads exist only inside `batch_execute`.

What is hard:

- the shared scan: sixteen threads, one task array, no lock used (the mutex is
  created and never taken); correctness rests on the stripes and on the join;
- the order of commands: `batch_queries` twice, `batch_execute` alone, a handle
  defined twice in one batch;
- signed and zero keys in the hash table, chains and counters over a long
  sequence of puts and erases;
- the catalog copied to and from every client, with fixed table sizes;
- durability: nothing is written before `shutdown`, and files are then written
  in place one after another;
- row alignment: the columns of a table, its sorted copies and its trees must
  tell the same story after every insert, update and delete;
- results larger than a message, whose cursors are static variables.

What makes each component correct:

- shared scan: every handle of a batch gets exactly the rows its select
  qualifies, whatever the interleaving, and the batch ends;
- hash table: it is an insertion-ordered multimap and frees what it allocates;
- variable pool: a handle is never read after it was freed, and the pool never
  holds two entries of a name;
- catalog: what one client created the next one sees;
- protocol: client and server never both wait, and all rows arrive once;
- persistence: what was there at shutdown is there at startup;
- relational operations and indexes: rows stay aligned, an index agrees with its
  column;
- B+ tree: ordered, every key reached by a search, nothing lost;
- selects, fetches, aggregates, joins: the reference definition, over whatever
  the commands before left in the pool.

## 2. Plan

All seven parts are modelled and checked, and proved about.

1. `SharedScan`, with `Selection` (columns and selects), `BatchSelect` (what a
   batch promises), `SharedScanProofs`.
2. `HashTable`, with `MultiMap` (what it promises), `HashTableProofs`.
3. `VariablePool`: handles and catalog over several clients, with `Environment`
   (what a client is promised), `VariablePoolProofs`.
4. `Protocol`: client and server in lockstep, print and load in chunks, with
   `Listing` (what a print shows) and `Service` (what the two promise).
   `ProtocolProofs`. Liveness under fairness of both processes.
5. `Persistence`: shutdown, startup, a crash between any two file operations;
   the promise is that a startup finds what the last shutdown saved.
   `PersistenceProofs`.
6. `TableStore`: load, insert, update, delete over columns and indexes, on top of
   `Indexes` (the four kinds of index), `BTree` and `Sorting`; the table as a bag
   of rows is what it promises. `SortingProofs`, `TableStoreProofs`.
7. `Query`: selects, fetches, sums, aggregates and joins of a client over two
   tables, on top of `Indexes` and `Joins`; beside every vector stands what it
   should be. `QueryProofs`.

Left to prove: what the trees find, in 6 and in 7. Recursive functions are proved about by induction in set form
(`SortingProofs`). `Recursion` says that the equation of such a function has a
solution if a rank of its argument descends with every call, so that the one the model
chooses is one; `Upward` and `Downward` say what it is: a set that has 0 and with every
number below n the next one has all of them, and so does a set that has a number
whenever it has all smaller ones.

## 3. The modules

### Shared scan

`Selection` has the columns, the select predicate (`Qualifies`, from the three
select functions `db_manager.c` has for batches), and `IsSelection`: what it
means for the first n cells of an array to be the answer of a select over the
first m rows.

`SharedScan` models `batch_queries`, batched selects, `batch_execute`,
`batch_run`, `shared_scan`, the select functions and `tarray_destroy`. The
variables are the program's: `task`, `ntuples` and `positions` are the task
array, `start`, `index`, `isdone` the locals of `shared_scan`, `pos`,
`num_pos`, `count` those of a select function, `spc` and `k` say where the
server's thread is in `batch_run` and `tarray_destroy`. A scan thread steps
once per row; `*ntuples` is read when a vector begins and written when it ends,
as in the code, so that two threads in one task would lose updates in the model
too. `positions[...] |= row` is `OrInto`: a cell that is not zero does not take
the new row but a mixture.

A handle that was queued and never filled is "pending": its position vector
came from `malloc`. Defining such a handle again frees an uninitialised
pointer; the model lets the server survive or crash. `batch_execute` without a
task array crashes. Selects without any bound are excluded (`BoundsAssumption`):
they would call an uninitialised function pointer. Commands other than selects
are not sent while batching.

`BatchSelect` is the same batch with no threads: collect, run, hand out one
answer after another. `SharedScan!ImplementsBatch` maps the one to the other.

### Hash table

`HashTable` has one action per function of `hash_table.c`. A node carries an
identity, its number in the order of puts; `heap` is what `malloc` gave out and
`free` did not take back. put uses |key| for its slot, get and erase use C's
remainder: `BeforeArray` is what happens when that is negative. `ptr` is the
caller's pointer, which stays dangling after `deallocate` until the caller
clears it. `MultiMap` is what the table promises:
everything for keys that are not negative, and of the others only that a miss is
an empty answer or the end.

### Variable pool

`VariablePool` has both tables of names, the heap behind them, the three loops
over tables (copy in, copy out, clear) with one action per turn of the two
copies, and one action per kind of command: what it looks up while it is parsed,
what it frees, what it enters and reads when it is executed. An object of the
heap is `free`, `raw` (from malloc, contents unset), `part` (a result whose
length was never set) or `full`; that is all that matters for who may read or
free it. Data, lengths and values are left out, and so are commands that touch
neither table (load, insert, create of a table or an index).

The server checks nothing about the use of names, so the model says what goes
wrong (`fault`) and what a client must do to avoid it. `kept` stays true while
every client keeps these rules, each of which the code needs:

- a command does not define a handle it reads, the two handles of a join
  differ, and nothing reads the result a failed `add` or `sub` left;
- one `create(db)`; a column is created once, after its database, and while
  the client's table has fewer than `MAX_BASE_COL` entries;
- within a batch only selects of columns are sent, and each defines a handle
  of its own; batches are not nested, only an open batch is executed, and
  nobody leaves within one;
- `shutdown` needs a database, and nothing follows it.

`ordered` is one rule more, on its own because breaking it alone is harmless to
the client that does: columns are created before handles. What becomes of the
clients that come later is in section 6 (`execute.c:787`, `db_manager.c:269`).
`ColumnsHandedOver` does not need it: the columns before the first handle of a
client's table, or before the first gap of the server's (`Leading`), are kept
through the session, handed back at its end and given to the next client, also
where a client, or one before it, created columns behind handles.

`Environment` is what a client that keeps the rules may rely on: a session
begins with the columns and no handle, a definition binds fresh objects, a name
keeps its object until it is defined again. `VariablePool!ImplementsEnvironment`
maps the tables to it: a name stands for the object of the first entry of that
name while a trusted client is served.

### Protocol

`Protocol` has the client's `main`, `send_receive`, `process_payload` and
`load_file` on one side, the server's accept loop, `handle_client`, `send_data`
and the print and load functions behind `execute_DbOperator` on the other, and
the two directions of a socket between them. An action ends at each `send`,
`recv` and `accept`. `cstate` and `sstate` are the two program counters; `hdr` is
the static `hdr_info` of the client, `cursor` the static `num_rows` and `start` of
`db_print_one` and `db_print`; `typed` bounds the commands of a client.
The socket is external: it keeps every send whole and in order, holds `Capacity`
of them in a direction, and a send to a client that is gone ends the sender
(SIGPIPE, or `exit` after EPIPE). A client may be killed at any step. An answer
without text still has two sends: after its header the client goes on, and may even
leave, while the server has the send of no bytes before it (`ReplyNothing`).

Abstracted: bytes and tokens. A length is zero or not; how many lines fit a
payload or a load message depends on their bytes and is chosen freely up to
`TextVec` and `LoadVec`; rows of one operand have one size, so that
`PRINT_VEC_SIZE` of them make a chunk. One table with one column that has an
index stands for all; commands that only touch the variable pool are "run". The
history `stored` counts the lines that the load of a client added.

`Service` is the promise without messages: a client gives an order, the rows it
prints appear once and in order, the lines it adds are stored once and in
order, and the answer comes when all is shown and stored.
`Protocol!ImplementsService` maps the screen and the table to it; chunks are
`Show` and `Store`, most messages stutter. `Listing` says what row a print shows,
operands of different lengths included: behind the shorter one it shows junk,
as the code does.

### Persistence

`Persistence` has the database in memory (`db`), the catalog, the column and
index files, and the progress of `db_shutdown` through them: `todo` are the files
it has not come to, `opened` the one that was truncated and not yet written. A
crash (`Stop`) may come between any two of these steps. The catalog's lines stay
in stdio's buffer until the final `fflush`, because with the 32 base columns of
the server they are shorter than it; what is on disk until then is the empty
file that `fopen` left. The order of the files is freer than in the code: only
that a column comes before its index is kept. `Found` is what `db_startup`, `db_open`,
`open_db_helper`, `read_column_data` and `read_index` make of the files.

File formats are abstracted to the rows in them: a column file to its cells, an
index file to the cells it was built from, "junk" when `commit_index` follows the
pointers of an index that no load built. Rows are numbers in the order of the
indexed column. Building a clustered index puts the rows of all columns in that order
(`Arranged`); a clustered sorted index has no file, and a startup does not sort for it: it takes the
column as it is read (`RestoredSort`), in order or not. `Searchable` says that each index
found was built of the cells of its column, and those of a clustered one are in order. Every name of a column names the same
file in every database, since a database that is created again usually has the
same name. `Load` and `Delete` stand for all commands that change rows; how they
change each index is in `TableStore`. `kept` is the rule behind
`FoundIsSaved`: declared columns are created, every index was built by a load
(but for a clustered sorted one over rows that happen to be in order), and every
column and index file can be opened. `saved` is history.

### Tables and indexes

`Sorting` has the merge sort behind `sort_data` and the binary search of
sorted arrays, which looks at one cell behind the last. An array of n cells is
a function on 0..n-1, as in C.

`BTree` has the functions of `btree.c` over a heap of nodes and records. A node
keeps its fixed arrays, because an insertion compares its key with a cell that
may be behind the used ones and hold an old key. Deleting, unlinking emptied
nodes, splitting, renumbering the positions in the leaves to the right, and bulk
loading are as in the code, with its order (2048) as a constant. A tree that is
not `ok` led the program through NULL or a freed record.

`Indexes` has the four kinds of index: how they are built over a column, what a
select through them answers, and how they follow inserted, deleted and updated
rows. A select or an update that reads behind the end of an array finds `behind`,
one value per operation out of `Junk`; a write behind an array, or a step
through a pointer that nobody set, ends the behaviour as a `fault`. The positions
of a clustered sorted index are never read, so that only their room is kept.

`TableStore` composes them: the columns of one table with the cells, the
capacity and the room of their arrays (the two differ after
`propogate_sort_order`), and one action for each of create index, select (which
fills the handle), load, insert, delete and update. All columns are created
before the first row, and a file names them in the order of the table. `rows`
is the bag of rows that the table should hold.

The code checks none of the conditions under which these operations are right.
`kept` says that they held so far, and there is one operator for each operation,
after reading the code and after TLC had shown a counterexample for each
condition that was left out:

- `LoadKept`: indexes are built with the last part of a load, one clustered index
  at most and before the unclustered ones in the order of columns, a bulk-loaded tree
  gets a multiple of half an order of rows, and arrays have the room that
  their capacity says, or are full, so that they are reallocated.
- `InsertKept`: every index was built, every array has room or is full; without
  a clustered index no unclustered sorted one (`db_insert_to_index` takes it for
  a tree); where a value has no equal it must go before all (`SearchFits`), and the
  cell of a tree that the key goes to must not hold it from before
  (`TreeTakes`).
- `DeleteKept`: the handle is younger than any move of rows; the rows are such
  that the loop, which compares places in the new array with positions in the
  old one, is right: all but the first are the last rows of the table, and with a
  clustered index at most half of the rows (rounded up) stay, because the loop's
  bound shrinks as it counts;
  without a clustered index the first row or all, because `count` goes on from
  column to column; indexes find rows by values nobody else has, and from the
  second row on an unclustered sorted index (`db_delete_sort_uncluster`
  searches the cells the first removals left behind too) only if what is there
  is greater than every value.
- `UpdateKept`: one row where an index is concerned, of a unique value, and no
  new root; an unclustered sorted index cannot be updated at all.

TLC shows that all of these rules together are sufficient on the instances here. Each
was found from a counterexample without it; the one about what an unclustered sorted
index finds behind its rows needs smaller values there (`Junk` with 2 or -5)
than the runs use.

### Queries

`Joins` has the joins of `join.c` over two inputs, the bigger one first. A join is
lost when it writes behind its answer, reads before its hash table, asks for ever
or runs off the end of its inputs. `Query` has a client with a position vector
and a result for each of two tables, which do not change, and an action for
each kind of command: a select through the column or its index, a select within
fetched values, a fetch of a column, of a result or along the answer of a join,
add and sub, an aggregate, a join. With each vector the model keeps the rows that
it should select (`rows`), the positions its values were fetched along (`along`)
and the values they should be (`means`).

`kept` again collects what the code needs: bounds of an index select that are
answered like the scan (`IndexAnswers`), values that belong to the vector they are used
with (`Aligned`), operands of one type and length that do not leave the range of
int, min of something not above 0 and max of something not below, and for each join
what `JoinKept` says: nested loops no more pairs than the bigger input has rows,
hash keys that are unique in the bigger input and not looked for before the array,
sort merge ascending inputs that end with the same value, grace only partitions of
row 0 with one key, since its answer is computed with ~0 and ~1 where 1 and 0 were
meant. `IndexNearBounds` does without these rules for the indexes: however the
bounds lie, only rows next to one of them can be wrong.

Operators named `Defect...` in these modules are deliberate mistakes, one for
every checked property; each stands in for the definition after it to see that
the property notices.

## 4. The runs

| Run | Checks | Instance |
|---|---|---|
| `scan` | types, exact prefixes, disjoint stripes, cells in bounds, exact answers, publication after the join, refinement of `BatchSelect`; a started batch ends | up to 3 selects over columns of 3, 3 and 1 rows, vectors of 2 rows, 2 threads, 2 handles |
| `scan_whole_column` | finds: a select cut short | the same as `scan` |
| `hash` | types, pairs are found where they were put, nothing leaks, refinement of `MultiMap` | 4 puts, keys -1, 0, 1, 3, tables of 0, 1 and 3 slots, buffers of 1 and 2 |
| `pool` | types, columns before handles survive a session and reach the next client, refinement of `Environment` | 3 columns, 2 handles, 5 objects, tables of 5 and 4 slots |
| `pool_handles` | the rules suffice, one entry per name, nothing leaks, the inductive invariant | 1 column, 4 handles, 5 objects, tables of 5 and 1 slots |
| `protocol` | types, client and server take turns, the index covers the column, refinement of `Service` | 2 clients, 2 commands each, results of 2 and 3 rows, files of 3 lines, of none, without header, of unknown columns; chunks of 2, sockets of 2 sends |
| `protocol_live` | every command of the client that is served is answered | 1 command each, sockets of 1 send |
| `persist` | types, a startup finds what the last shutdown saved, and indexes that can be searched | 1 table, 2 columns, 2 index types, up to 2 rows of 2 kinds |
| `table` | types, columns as long as the table, no fault, the right rows, sound indexes | 2 columns of capacity 3, any pair of index types, order 6, files of 0, 3 and 6 rows, 3 commands that change the table and any selects |
| `trees` | no fault, sound indexes | 1 column, a clustered sort, a clustered or an unclustered tree of order 6, files of 9 and 20 rows, 4 commands |
| `table_sizes` | finds: two clustered columns take every insert twice | as `table`, 2 commands |
| `query` | types, no fault, exact selects, values, joins and aggregates, index selects wrong only next to bounds | tables of 2 to 6 rows, 5 index types, 6 commands (2 or 3 with an index), int of 5 bits |

Why the bounds are enough. Scan: three tasks on two threads give one stripe of
two tasks and one of one, two vectors per long column and one for the short one;
the short column can be first, last or alone in a stripe. Both handles can be
defined twice. Hash: with three slots keys 0 and 3 collide, 1 and -1 do in a put, and -1 is looked for
before the array; with one slot all collide; four puts make chains of four, so that an erase hits the
first, a middle, the last and the only node. Pool: three columns and two handles
let a column be created before, between and after handles and let both tables
fill up; a join needs two results, two positions and two handles to define, and
four handles let each role be played by a handle that is defined again. Protocol: three rows
or lines in chunks of at most two give a full and a partial chunk, and also three
of one line each; a first command leaves cursors, a header and an index for the second;
the second client waits in `listen` while the first is served or lost. A socket
of two sends lets the server run ahead of the client by a chunk, one of a single
send makes it wait for every message. Persistence: two columns let a crash fall
between the files of a table, and between a column and its index; two
kinds of rows tell an old file from a new one, two rows can be out of order, and
a table can be empty, full and emptied again. The number
of shutdowns, crashes and startups is not bounded. Number
and order of sessions are not bounded. Tables: two columns are what a
clustered index and another one need, in both orders; the small file fills the
capacity, so that an insert has to grow the arrays, the other one passes it during
the load and fills two leaves of a bulk-loaded tree; new rows go before,
between and behind the others, with values that are there and that are not.
Three commands allow a load, a change and another one on what that left. Trees:
20 rows in falling order fill inner nodes up to the root, and another row or
update splits it; 9 rows make leaves of 3 that a delete can empty. Query: two tables of
different lengths, so that each of them can be the bigger side; without an index six
commands are two selects, two fetches, a join and a command on its answer; an
aggregate counts three, since its answer is no operand; with an index every kind of
bounds on a column of two leaves, of one leaf and of equal values. The runs
`table`, `trees` and `query` stop where a condition is broken, because every
property but `SizesAgree` and `IndexNearBounds` speaks of behaviours that kept them;
these two are checked up to and including the first command that did not. In the runs of the pool
columns, handles and objects are interchangeable, which `Symmetry` uses (there is no
liveness in these runs), and `RulesKept` stops where a rule was broken: every property
of these runs speaks of clients that keep them.

Deadlock checking is off in these runs because a crashed process takes no more
steps, because a hash table that used up its puts has nothing left to do, because
the server stops at its first fault and after a shutdown, because clients that
are gone leave nothing to do, because the commands on a table and the queries are
counted and end at the first fault, and because a database that cannot be loaded stops
every startup.

Fairness (`scan`): weak fairness of the server thread and of each scan
thread. The operating system runs every runnable thread, and none of them waits
for another except in `pthread_join`. Nobody makes the client send anything.
Fairness (`protocol_live`): weak fairness of the server and of each client process
outside its prompt, for the same reason; nobody has to type, to connect or to
leave, and a client in the queue has no promise: the one before it may stay.

## 5. What is proved

`SharedScanProofs`, for every number of columns, rows, threads and tasks, from
`SelectionAssumption` and `ScanAssumption`: `TypeOK`, `PrefixExact`,
`NoSharedTask`, `CellInBounds`, `BatchExact`, `PublishedAfterJoin` and
`ImplementsBatch`. The inductive invariant `IInv` adds to types and `PrefixExact`
where the server and each thread are: which threads exist (`ServerControl`),
that a thread's index stays in its residue class and what its `isdone` says of
the task before (`StripeControl`), what the locals of a select function hold
(`RowControl`), and that waiting tasks are untouched (`FreshTasks`). That two
threads do not meet is arithmetic: a task has one remainder. `PrefixExact` is
needed inductively because the next row is OR-ed into a cell that must be zero.
The refinement has one lemma per side: initial states, and steps; publishing
uses that a joined batch is exact (`JoinedIsExact`).

`HashTableProofs`, for all keys, values and sizes, from `TableAssumption`:
`TypeOK`, `FoundWherePut`, `NothingLeaks` and `ImplementsMultiMap`. `IInv` says that chains hold nodes of
their own slot in order of insertion and that the counters equal the lengths;
then `deallocate` pops every chain empty. The assumption that the number of
slots is a natural number is one TLC evaluates; it is not proved from the powers of 2.
In the refinement the pairs of the multimap are the nodes of all chains. Those of a key
are all in the chain that get walks (`MatchingIs`); the walk lists them, each once and
oldest first (`FoundFacts`), so that their number is its length (`CountNodes`); and the
first one that erase unlinks is the oldest (`EraseRemoves`). A negative key without a slot
is `Miss`, a table without slots `Crash`; an erase that finds nothing removes nothing.

`VariablePoolProofs`, for any names, objects and table sizes, from
`PoolAssumption`: `TypeOK`, `RulesSuffice`, `OneEntryPerName`, `NothingLeaks`,
`ImplementsEnvironment` and `ColumnsHandedOver`. `IInv` is types, `RulesSuffice` and, while the rules are
kept and the server has not shut down, `Sound`: columns own their objects; the
server's table holds columns without a gap; where the loops of the two copies
are; the client's table begins with the server's columns, then has columns it
created, then handles (`Shape`); a handle owns its object and only a queued one
is unset; and whatever is not free is owned. `RulesSuffice` alone is not
inductive, because a fault is caused by what an earlier command left in a
table. The commands are proved in two halves, clean-up and entry, and between
them the handles just freed are the only names that dangle (`CleanOwn`,
`EnterOwn`). In the refinement breaking a rule is `Lose`, the end of the copy in
is `Begin`, `CreateColumn` is `Declare`, a command with one handle is `Define`, a
join is `DefineTwo`; the copies and commands without a handle are stutters.
`ColumnsHandedOver` also speaks of clients that create columns behind handles, and of
those that come after them, so it has an invariant of its own (`HInv`): no table lists
a column twice; what the client's table lists is in the same place of the server's table
or unknown to it (`Held`, `Unknown`), so that the copy back never writes over another
column; and each copy has filled the other table with the columns before the first gap or
handle, as far as it has come (`LeadingIn`, `LeadingOut`). The theorem also needs
the two ends of a session: the copy in ends with all of them (`BeginSession`), the copy back
too (`HandedBack`).

`ProtocolProofs`, for any clients, results, files, sizes of chunks and sockets, from
`ListingAssumption` and `ProtocolAssumption`: `TypeOK`, `Lockstep` and `IndexCurrent`.
None of them is inductive, because they say little about messages under way. `IInv`
says for every client what those are, given its own state and the server's: what the
client has sent and nobody received (`Unread`), a header received without its payload
(`HalfRead`), and an answer, in which headers and payloads alternate, begin with the kind
that the client waits for, and only the last may be an end (`Answers`, `Underway`,
`Ended`). `Conversation` says which of these the server is in with the client it serves,
and `Turns` that the others are `Unread`. `CursorSound` ties cursors to a print that goes
on, `LoadSound` what a load has stored to the part that is under way, `QueueSound` that
nobody waits twice. Each action has a lemma; what an action leaves alone is in
`ClientStep` and `ServerStep`, a process that is lost in `GoneKeeps` and `DieKeeps`. That
a print has a number of rows needs that a pool has finitely many results
(`LongestResult`).

For the same parameters `ProtocolProofs` has `ImplementsService`. `RInv` adds to `IInv`
where every row of a print is: those on the client's screen, those in the messages
under way, those in the answer that the server is about to send and those behind the
cursor are together the rows of the print, each once and in order. Some function
(`Sheet`) gives every message under way its rows; the invariant says that it exists.
In the refinement connecting is `Join`, typing a command is `Ask`, the client's read of
rows is `Show`, of the last part `Answer`, the server's last part of a load `Store`,
leaving and being lost `Quit`; all other steps of either process are stutters.

`PersistenceProofs`, for any tables, columns, rows and any length of tables, from
`PersistenceAssumption`: `TypeOK` and `FoundIsSaved`. `FoundIsSaved` is not
inductive, because it speaks of the files only when a shutdown has ended. `IInv`
adds what holds on the way: the lines of the catalog are well formed
(`CatalogSound`); one file is open at a time, and none outside a shutdown
(`Pending`); during a shutdown the catalog is empty and every file of the database
that is neither to do nor open has its content already (`Saving`); and while the
rules are kept what was saved is complete and can be searched, rows are in all columns
or in none, and built indexes hold the cells of their column, those of a clustered one
in order, in memory as in what was saved (`KeptSound`). The step that matters is
`ShutdownEnds`: reading back what was written gives what was wanted, because a
column is cut and filled to the length of its table by the writer and by the reader
alike (`CellsFacts`).

`TableStoreProofs`, for any number of columns, files and values, from
`TableAssumption`: `SizesAgree` with every type of index, and
`TypeOK`, `KeptIsSafe`, `RowsKept` and `IndexesSound` of behaviours whose table has no tree
index (`NoTree`: no index, or sorted ones, clustered or not, on any of the columns).

The invariant of `SizesAgree` (`SizeInv`) is the shape of the columns,
that sizes are integers, and natural while nothing went wrong in the column, and the
property. Every operation is shown to change each column by the same number of rows,
whatever its data and its index hold, or to note a fault. The loops over the columns
are recursive functions in the model: a lemma says that such a function exists, so that
the one the model chooses is it, and the property follows column by column by induction
(`Upward` of `SortingProofs`). With one clustered column the loop changes the whole table at that column
and nothing at the others (`OnTheWay`). Whether the conditions of the other properties
are kept does not matter.

It does not matter to `TypeOK` either. Its invariant (`TypeInv`) adds that each array of a
column has one integer per row, that capacities are above 0, that a sorted copy is an array
of integers (`Typed`, `Plain`), and `Steady`: without a fault no column has more rows than
`table_length` times the number of clustered columns. Without that a second clustered
column, through which an insert adds its row again and a delete takes rows again, could
leave `table_length` below zero. That the loops inside the index functions, in
`db_update_sort_uncluster` over faults as well, stay among the arrays of integers is the
longest part.

The other three have one invariant, `KeptInv`, which says something only while the conditions are
kept: every column has `table_length` rows, no fault and room for them, with one capacity
for all (`GoodTable`); a built index fits its column (`Fits`): a clustered column is in
order, the copy of an unclustered index is in order and its positions are a permutation that
leads back to the column (`Mirrors`); at most one clustered index is built (`Lone`); a
handle that is younger than any move of rows names rows and none twice (`GoodHandle`); and
the bag of the rows is the wanted one. The properties alone are not inductive: an insert
keeps a copy in order only if it was in order, and that a delete takes the wanted rows needs
that its handle repeats none. Each command has a lemma under its conditions:

- a load sorts by the clustered column, which permutes the rows of all columns alike
  (`BuiltRows`), and builds the others over what that left (`BuildingOn`);
- an insert opens a gap at one place in each column (`Wider`, `TakesRow`); `SearchFits`
  is what keeps the clustered column in order;
- a delete under `DeleteKept` closes a gap: all its rows but the first are the last of the
  table, so that what is left is `Narrow`, with the rows of the handle gone from the bag;
- an update in place changes the cells of the handle (`Given`); through a clustered index it
  moves one row to where its new value belongs, a turn of the rows between (`Turn`, `ShuffledRows`), and an
  unclustered index of another column gets the new places by a search for each row
  (`RefreshedMirrors`).

What these conditions say of trees plays no part in the proofs.

`SortingProofs`, for any array and key: a binary search ends at a hit or at a cell of
the array, whether the array is in order or not (`SearchResult`), and a sort gives each
cell once, in order (`SortedRun`). It is what the proofs about `Query` know of an index
at the load. Its second half has what the proofs about `TableStore` need on top: the sorted
index when its column gets a cell, loses cells or changes their order.

`QueryProofs`, for any tables, bounds, sums and aggregates, any width of an int, any
number of partitions and anything behind the arrays, from `QueryAssumption`,
`InvalidAssumption` and `PartitionsAssumption`: `TypeOK`, `KeptIsSafe`, `SelectsExact`,
`ValuesExact`, `JoinsExact`, `ScalarsExact` and `IndexNearBounds`, each of behaviours
whose table has no tree index (`NoTree`: no index, or a sorted one, clustered or not).
That restriction is what the proofs do not know of a B+ tree; with a tree the seven stay
with TLC. The invariant (`QInv`) is:

- `Structure`: types, and that the columns of a table have one length, a clustered
  column is in order, and an unclustered index mirrors its column: its copy is in order
  and its positions are a permutation that leads back to the column (`Mirrors`). No
  command changes a column, so the load has to establish it (`LoadedSorted`, by
  `SortedRun`).
- `Meaning`: without a fault every vector is wrong at most next to its bounds
  (`NearsGood`), and while the conditions are kept there is no fault, every vector lists
  the rows that qualify (`SelsGood`), every result is what it means (`ValsGood`) and
  the last answer is right (`OutGood`). The properties alone are not inductive, since a
  fetch or a join needs that the vector it is given names rows and names none twice.

Exactness is stated as `Lists(s, X)`: the sequence s is over X, repeats nothing and
leaves nothing out; `ListsExactly` turns it into the count of the properties. For each
loop of the code there is a lemma of one turn and one of the whole. A search of a sorted
index cuts the order in two, next to the bound (`LowerNear`, `UpperNear`) or exactly at
it (`LowerCut`, `UpperCut`); `IndexAnswers` is what makes the difference. For a join the
wanted pairs are those of the rows passed so far (`PairsIn`); a row, a slot or a turn of
the loop adds its own, and no pair belongs to two of them (`PairsApart`). Each of the
four algorithms also has a type when the conditions are not kept, because the client may
go on with what it got: `JoinedRight` says both. That the bigger side comes first is a
matter of turning the pairs (`TurnedRight`, `WantedTurned`).

Some conjuncts of the assumptions are there for these proofs. In `TableAssumption` the
values of an update and what is behind an array are integers, for they are ints.
Two are in `QueryAssumption`. What is behind an array
is an integer: it is memory of an int array. A table with an index has a row: the load
that builds the index stores one even of a file without rows (`execute.c:334`).

Only model-checked, all for reasons of what these provers can do: whatever has to do with a
tree index, which is `TypeOK`, `KeptIsSafe`, `RowsKept` and `IndexesSound` of `TableStore`
and the properties of `Query` for tables that have one (the recursions of the tree run
over a heap, so that they need an invariant of the whole tree, with its stale cells and
its separators, before they can be said to end); that the conditions of `LoadKept`,
`InsertKept`, `DeleteKept` and `UpdateKept` about trees suffice; and
`BatchEnds` and `EveryCommandAnswered`, because liveness and `ENABLED` are out of
their reach. No property of a safety run is without a theorem for at least the tables
without trees.

## 6. Disagreements between code and comments

Each of these two is shown by a run:

- `batch.c:214`: a thread of the shared scan stops with the last task of its
  stripe; a longer column in the stripe is not read to its end, and its handle
  gets a partial answer without any error (`scan_whole_column`).
- `execute.c:440`: with two clustered columns `db_insert` adds its row to every
  column twice, while `cs165_api.h:126` calls `table_length` the size of the
  columns in the table (`table_sizes`).

The models follow the code in these too, without a run of their own:

- `hash_table.c:72`: get looks for a negative key before the array; put stored it
  under its absolute value.
- `execute.c:787`: a column that was created after a handle is copied to the
  server's table behind a gap; the gap has kind RESULT and no object, and once it
  reaches a client's table, the end of that session follows its null pointer.
- `server.c:36`: a client that is killed while its command is under way takes
  the server with it, and all that was not saved; `server.c:161-162` wants it to
  run until it is shut down.
- `server.c:44`: so does a client that leaves after the header of an answer without
  text, when the server has still to send its payload of no bytes.
- `execute.c:72`: a clustered sorted index that was created after the load is not
  built, but after a shutdown and a startup it is taken for built
  (`indexop.c:102`), over a column in the order of the load, and searched by halving.
- `db_manager.c:21`: a table with a column that was declared and not created is
  saved, but stops every later startup.
- `aggregate.c:33`: min of positive values and max of negative ones are 0.
- `execute.c:660`: add and sub take the data of a column that is their second
  operand from the first one.
- `indexop.c:246`: an insert takes an unclustered sorted index for a tree.
- `join.c:280`: a grace join asks again for ever when a key of the bigger
  partition has no partner, and answers with other positions than those of the rows
  (`join.c:288`).
- `hash_table.c:111`: erase takes one pair, its comment says all.
- `db_manager.c:269`: the column behind a gap is beyond the table's length;
  `server.c:199` says the base columns are copied to the client, but no later
  client can name this one.
- `execute.c:334`: a file with a header and no data adds a row of 0 and
  uninitialised values.
- `execute.c:124`: the answer to a shutdown is "SUCCESSFUL" even when the catalog
  could not be opened and nothing was written.
- `server.c:204` copies the client's columns back from a table that the shutdown
  freed; everything is on disk by then, and `RulesSuffice` leaves it out.

## 7. Not modelled

- Tokenising and formatting (`parse.c`, `utils.c`), logging, and the text of
  messages and files: the operators the parser builds are the inputs of the models.
- Message sizes in bytes: 256 values of eight bytes would not fit a payload of
  2048, which the model of chunks in rows does not see. `recv` is taken to return
  whole messages, as a local socket does at these sizes.
- The leaf chain of a B-tree that was read again at startup, and columns that are
  created when the table has rows already.
- Selects in `TableStore` work on one table and one handle, and the tables of
  `Query` do not change: what a command finds in a handle that is older than
  the last move of rows is in the first, and how queries build on each other in the
  second.
- The order of magnitude: `BTREE_ORDER` is 6 instead of 2048, int has 5 bits where
  its width matters, positions are not bounded. A position that a grace join makes negative
  is a large unsigned one in the program; neither is a row. Rounding of an average.
- Code without a caller: the query array of `dsutil.c`, `rehash`, `btree_release` of
  a whole tree, `binary_search_exact`, `db_block_nested_join`, the quicksort and
  insertion sort of `sort.c`, `loader.c` and
  `project0/` (not linked). `db_hash_join_l` is an empty function; a hash join of long
  values is a fault in `Query`.
- `db_select_le_op` and `db_select_greater_op` with their index selects: they are
  called from `execute.c:210` and `execute.c:216`, but no command that is parsed asks for
  them.
