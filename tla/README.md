# TLA+ models of shathree.c

The models cover `src/sqlitecipher/sqlite3/shathree.c`, the SQLite extension that provides
`sha3(X,SIZE)` and `sha3_query(SQL,SIZE)`. This is the only source file of the repository's
hashing code. Everything here is checked with TLC. Every definition that models code is
listed, with its source lines, in the `map` of `PROJECT.json`.

## The system

| Part | Code | State | Operations |
|---|---|---|---|
| Keccak-f[1600] permutation | `KeccakF1600Step`, lines 81-396 | the 25 lanes `u.s[]`; the loop counter `i` | 24 rounds. The body is unrolled 4 rounds per loop iteration, with lanes renamed in place (`DTA` macros, `DTB/DTC/DTD` temporaries, `RC[]`). |
| Hash engine | `SHA3Context`, `SHA3Init`, `SHA3Update`, `SHA3Final`, lines 50-487 | the union `u` (lanes or bytes), `nRate`, `nLoaded`, `ixMask`; the build's `SHA3_BYTEORDER` | Init sets the rate and the byte-swap mask. Update has an aligned 64-bit fast path and a byte loop. Final pads and squeezes. |
| `sha3()` | `sha3Func`, lines 500-525 | none beyond a local context | Checks the size, returns NULL for NULL, hashes the blob or text bytes. |
| `sha3_query()` | `sha3QueryFunc`, `hash_step_vformat`, lines 532-687 | `zSql` (remaining text), `pStmt`, the context | A loop of prepare, read-only check, step over rows, finalize. It encodes `S<n>:<sql>`, `R`, `N`, `I<8 bytes>`, `F<8 bytes>`, `T<n>:..`, `B<n>:..`. |
| Registration | `sqlite3_shathree_init`, lines 696-716 | the connection's function table; `rc` | Four `sqlite3_create_function` calls, chained on `rc`. |
| SQLite itself | external | the database | prepare, step, column and value access |

How the parts interact: the two SQL functions call the engine, and the engine calls the
permutation. `sha3_query` also calls back into SQLite. It prepares whatever text is left,
checks `sqlite3_stmt_readonly`, steps through the rows, and reads the column types and values.
Everything is synchronous and single-threaded. Each call owns its own `SHA3Context` on the
stack. So the hard behaviours are not interleavings. They are:
- bit-exactness of the unrolled permutation;
- the byte order of the build;
- the fast path against the byte path at block boundaries;
- padding when one byte is left;
- the error paths of the query loop;
- integer truncation of the size argument;
- whether the encoding is unambiguous.

## Modules

- **KeccakRef**: the abstract permutation, written directly from FIPS 202.
  - The state is a flat function from the 1600 bits to {0,1}.
  - One `Step` is Theta, Rho, Pi, Chi and Iota.
  - Its Rho-offset and round-constant tables are checked by `ASSUME` against the FIPS 202 derivations: the (x,y) walk and the LFSR.
- **KeccakF1600**: `KeccakF1600Step` as the code computes it.
  - The tables `RC`, `DTA` (which physical lane holds each logical lane in each of the 4 unrolled rounds), `ROT` and `DTBShift` are read off the code.
  - `DTC` and `DTD` are the theta parities.
  - A `Group` is one block of five `DTB = ROL64(..)` lines and five `DTA = DTB ^ (~DTB & DTB)` lines.
  - One `Round` action runs one unrolled round. `i` and `j` track the loop counter and the position in the body.
  - The refinement mapping `Logical` undoes the lane renaming, and `Ref!Spec` is checked as a property.
- **SHA3Engine**: the context and the three engine functions, for a caller that feeds a message in chunks of any size, from aligned or unaligned buffers, and then finalizes.
  - The state bytes sit at machine addresses (`Addr`, little- or big-endian machine). The `build` record gives `SHA3_BYTEORDER` and the machine.
  - The permutation is abstracted. A context records the list of blocks that were permuted (as their logical bytes), plus the bytes XORed since the last permutation. This abstraction is exact because the permutation is a bijection, and it is checked on its own above.
  - `SHA3Digest` is the reference: the FIPS 202 sponge over the same abstraction.
- **QueryHash**: `sha3QueryFunc` and `hash_step_vformat`.
  - A call's text is given as the sequence of what successive `sqlite3_prepare_v2` calls make of the remaining text: a statement, a compile error, or no statement when only blanks or a comment are left.
  - Each statement carries:
    - its read-only flag;
    - the text `sqlite3_sql` returns;
    - its rows of typed values;
    - whether the step after the last row returns DONE or an error.
  - The hasher is abstracted to the bytes absorbed. Run `sha3_engine` shows that the digest depends on those bytes only.
  - Actions: `Entry` (size check, NULL text, `SHA3Init`), `Prepare` (one `prepare_v2` and its checks), `StepRow`, `StepEnd`, `Finish`.
  - The encoding is modelled byte for byte:
    - `%d` as decimal digits;
    - the `memcpy` of an int64 as its value modulo 2^64;
    - the `for(j=8;j>=1;j--)` shift loop.
  - The reference part has a decoder for the format of spec 4.4 and the outcome the spec gives to each call (`ExpectedOutcome`).
  - The connection's autocommit flag is part of the state: a statement whose `effect` is `begin` or `commit` changes it in the step that returns DONE, as SQLite does for `BEGIN` and `COMMIT`.
  - `nCol` is read once, after prepare (line 624). A statement's rows may be wider than that `nCol`, which is what a schema change by another connection between prepare and step produces: SQLite re-prepares at step, and `sqlite3_column_count` would now be larger.
- **NestedQuery**: `sha3QueryFunc` re-entered from its own `sqlite3_step`.
  - The state is a stack of frames, one per active call. A frame holds its text, its position `k`, its row and the column being computed. The bytes hashed are left out.
  - `Call` pushes a frame when the row being computed has a `sha3_query` column. On a full stack it crashes.
  - `Return` pops a frame. A digest or NULL becomes the caller's column value. An error makes the caller's `sqlite3_step` fail, which ends its row loop as at line 631.
  - `Prepare`, `StepRow`, `StepEnd` and `Finish` are those of QueryHash, applied to the innermost frame.
- **Sha3Func**: `sha3Func` as one `Call` step. It includes the 32-bit truncation of `sqlite3_value_int`: a 64-bit SIZE is a pair `hi`/`lo`, and `sqlite3_value_int` keeps `lo`.
- **Register**: `sqlite3_shathree_init`. The function table `registered` is a set of `<<name, nArg, xFunc>>` triples. Registering a name and `nArg` again replaces its `xFunc`, as `sqlite3_create_function` does. `CreateFunction` is one `sqlite3_create_function` call, which may fail with an error from the constant set `Errors`. `SkipCall` is a later call that the `rc==SQLITE_OK &&` chain skips.
- **Extension**: the composition of `R == INSTANCE Register`, `F == INSTANCE Sha3Func` and `Q == INSTANCE QueryHash`. The three share the call, its result and the connection. After the init, a `sha3` or `sha3_query` call is dispatched the way SQLite does it: by name and argument count, to the `xFunc` registered for that pair (`RunSha3Func`, or the steps of `sha3QueryFunc` in `RunSha3QueryFunc`), and to a "no such function" error when there is none.
- **MC_*** modules: they instantiate the modules above with test vectors, builds, messages, chunk sizes, scripts and argument lists.

## Runs

| Run | Checks | Result |
|---|---|---|
| keccak_kat | `TypeOK`, `KnownAnswer` (SHA3 of "" for all four sizes and of "abc"), `RefinesKeccakF` | pass, 125 states |
| sha3_engine | `TypeOK`, `DigestIsSHA3`: over all correct builds, sizes, and sequences of chunks of 1, 8, 13 and 80 bytes (aligned or not) of a 150-byte message, the digest equals the FIPS 202 digest of the bytes fed. | pass, 4832 states |
| sha3_armeb | `DigestIsSHA3` on a big-endian ARM build | violation: see findings |
| query_outcome | `TypeOK`, `OutcomeAsSpecified` over 1-3 statement scripts mixing queries, writes and compile errors, with SIZE 256, 512, 128, -256 or absent, and NULL text | pass |
| query_encoding | `DigestDecodes`: the absorbed stream decodes to exactly the statements and typed rows that were run. Inputs are all the scripts above plus the failing ones, and a `BEGIN; SELECT; COMMIT` script. | pass |
| query_trailing_blank | `OutcomeAsSpecified` with text ending in blanks after its last `;` | violation |
| query_step_error | `OutcomeAsSpecified` with a statement whose step fails | violation |
| query_wide_size | `OutcomeAsSpecified` with SIZE 2^32+256 | violation |
| query_nested | `ReturnsOrAborts`: a call returns a digest, NULL or an error, and never takes the process down. The texts are `A`, whose rows call `sha3_query` on another text `B`, and `Q`, which calls `sha3_query` on its own text read from a table. The C stack holds `StackFrames = 4` frames. | violation |
| query_transaction | `ConnectionUnchanged`: a returned call leaves the connection's autocommit mode as it found it. Scripts `BEGIN; <write>` and `COMMIT` inside a transaction. | violation |
| query_schema_change | `DigestDecodes` when the rows come back wider than the `nCol` read at prepare | violation |
| extension_load | `TypeOK`; `InitOutcome`: after the init, either all four functions are registered and `rc` is OK, or a prefix of them is registered and `rc` is the error; `LoadedCallsAsSpecified`: once the init returned OK, every call of `sha3` or `sha3_query`, with one or two arguments, reaches its own implementation and gets what spec sections 4.4 and 6 say. For `sha3` that is the size error first, then NULL, then a digest of X's bytes. For `sha3_query` it is the outcome, and a stream that decodes to the statements run. The calls are the `sha3` calls over 7 values of X and 7 sizes, and all `sha3_query` calls of `query_outcome`. | pass, 4332 states |

Every property of a passing run has a mutant in `PROJECT.json`: a plausible bug in a mapped
definition that the run then catches. Examples:
- the permute test written `>` instead of `>=`;
- the padding without the skip to `nRate-1`;
- the theta neighbours swapped;
- the read-only check dropped;
- the shift loop run upwards.

### Findings

1. **Big-endian ARM (line 54).** `defined(__arm__)` selects `SHA3_BYTEORDER 1234` on every 32-bit ARM. On a big-endian ARM both XOR paths then address the wrong lane bytes, and every digest is wrong. Later SQLite versions test `__ARMEL__`.
2. **Trailing blank (line 626).** Text such as `'SELECT 1; '` or `'SELECT 1;--x'` makes the last `prepare_v2` succeed with `pStmt = 0`. Then `strlen(sqlite3_sql(0))` dereferences NULL. Later SQLite versions guard with `if( pStmt==0 ) continue;`.
3. **Step errors (line 631).** A step error ends the row loop like `SQLITE_DONE` does, and a digest of partial results is returned. This contradicts spec section 7.
4. **SIZE truncation (lines 512, 598).** `sqlite3_value_int` keeps 32 bits, so SIZE 2^32+256 is accepted as 256: no size error is raised. In the run's trace the SQL argument is NULL, so the call then returns NULL; the point is that the size passes the check. The run shows it for `sha3_query`; `sha3` reads SIZE with the same call.
5. **Unbounded re-entry (line 631).** `sqlite3_step` runs the statement on the caller's C stack, and a column `sha3_query(s)` re-enters `sha3QueryFunc`. Nothing limits the depth. `SELECT sha3_query(s) FROM q`, where `q` holds that same text, nests until the stack overflows. Spec section 5 says a call runs to completion or aborts on its first error. Any finite `StackFrames` is exceeded the same way, because each level calls the next before it returns.

6. **Transaction control passes the read-only test (line 617).** `sqlite3_stmt_readonly` is true for `BEGIN` and `COMMIT`, so `sha3_query('BEGIN; ...')` can leave the connection in a transaction, or commit one the caller had open. Spec section 7 says the function runs only read-only statements.
7. **Stale column count (line 624).** `nCol` is read once after prepare. If the statement is re-prepared at step against a wider table, the extra columns are not hashed, and two different results hash alike.
8. **Byte order of I and F (line 567).** The comment at lines 567-568 says integers and floats are followed by 8 little-endian bytes. The loops at lines 645-648 and 659-662 store the least significant byte last, so the bytes are most significant first. `DigestDecodes` (run `query_encoding`, which passes) decodes every stream with that big-endian layout, so the comment, not the code, is wrong. Spec section 9 lists this as an open question and favours the code's layout.

## Bounds and why they are enough

- **Permutation.** It is checked on five real padded blocks through all 24 rounds. The refinement is checked at every round step, so every lane, rotation, renaming and round constant of the code is exercised on non-trivial data.
- **Engine.**
  - Sizes: all four, so all four rates (72, 104, 136, 144 bytes).
  - Chunk sizes:
    - 1 byte exercises the byte loop;
    - 8 bytes, a whole word;
    - 13 bytes breaks word alignment;
    - 80 bytes is larger than the 72-byte rate, so one call permutes from inside the word loop.
  - A 150-byte message crosses two block boundaries at rate 72, and reaches `nLoaded = nRate-1` (the 0x86 case) for some chunkings.
- **Queries.**
  - Texts and blobs contain the tag letters, `:` and digits, so a format that were not self-delimiting would decode wrongly.
  - One statement text is 12 bytes long, which gives a two-digit length.
  - Integers include -1 and 300, exercising the sign bytes and more than one byte.
  - There is a float bit pattern, scripts with no rows, and scripts with several rows.

- **Registration.** `Errors = {"BUSY"}` is enough: `InitOutcome` does not depend on which error it is, only on the first call that fails. Each of the four calls may fail, so every prefix of the function table is reached.

## Fairness and liveness

No module assumes fairness, and every property is an invariant. The hashing code is
sequential C with no waiting. A call of `sha3QueryFunc` ends because its script is finite:
each action moves to the next row, statement or exit, and TLC's deadlock check (on in every
run) shows that no state stops before `returned`. The real
non-termination risk is re-entry through `sqlite3_step`; run `query_nested` covers it as
a safety property, since the nesting ends in a stack overflow rather than running forever.

## Not modelled

- **SQLite's own behaviour** (parsing, database effects, value-to-text conversion). It is given as the results its calls return. Of the connection's state, only the autocommit flag that `BEGIN` and `COMMIT` change is modelled. Other effects of statements that pass the read-only test (`ATTACH`) are not.
- **The SQL text itself.** A call's text is given as what successive `prepare_v2` calls make of it. So a text with an embedded NUL, whose statements after the NUL are neither run nor hashed (hazard at line 608), looks the same as its prefix.
- **The permutation inside SHA3Engine.** It is abstracted, as explained above.

## Further work

- Compose the engine with the permutation for one short message per build, so the digest bytes are checked end to end on big-endian layouts. For now the abstraction argument is what connects them.
- NestedQuery with acyclic nesting and the hashed bytes kept. That would show that an inner call's error silently cuts the outer call's rows short (line 631 again), and that each frame's context is its own.
- Widen the query scripts: more statements per call, and step errors in the middle of the rows.
