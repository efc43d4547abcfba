----------------------------- MODULE WorldScan -----------------------------
(***************************************************************************)
(* bedrock_list_non_natural.py of from-ai/minecraft: open_db_readonly,     *)
(* which moves the LOCK file of a LevelDB aside while it opens the data-   *)
(* base, and scan_world with the decoders of subchunks and entities.       *)
(*                                                                         *)
(* A file is known by who created it.  Opening a LevelDB (external) takes  *)
(* a lock on the LOCK file, which it creates when there is none, before it *)
(* looks at anything else of the database: when that fails then, the lock  *)
(* is released and the file stays.  It fails at once when another process  *)
(* holds the lock; moving or removing the file does not release it.        *)
(*                                                                         *)
(* A subchunk has Side^3 blocks (4096 of them in the program) and is       *)
(* packed into words of WordBits bits (32); a record is what its bytes     *)
(* say, and where they end early.                                          *)
(***************************************************************************)
EXTENDS Integers, Sequences, FiniteSets, FiniteSetsExt

CONSTANTS
    MaxScans,           \* how many scans of one world there are
    Side,
    WordBits,
    BitsPerBlock        \* the widths the subchunks of the world use

ASSUME ScansAssumption == MaxScans \in Nat \ {0}

Scans == 1 .. MaxScans
NoFile == 0
Server == MaxScans + 1       \* who created the LOCK that a scan finds
Files == 0 .. MaxScans + 1

VARIABLES
    scans,              \* the scans that are run
    lock, backup,       \* the files LOCK and LOCK.scan_bak
    held,               \* the locks that are held: which file, and by whom
    pc,                 \* of each scan
    original_existed,
    found,              \* LOCK at the beginning
    disturbed,          \* whether scans overlapped while they opened, or one was killed then
    world,              \* the records of the database
    listing             \* what a scan has printed: the blocks, and the entities

scanVars == <<scans, lock, backup, held, pc, original_existed, found, disturbed, world, listing>>
lockVars == <<lock, backup, held>>

\* The blocks and entities of the small worlds, and those of them that are natural.
BlockNames == {"air", "stone", "plank", "brick"}
NATURAL_BLOCKS == {"air", "stone"}
NATURAL_ENTITIES == {"cow"}
NoName == "no name"

-----------------------------------------------------------------------------
(***************************************************************************)
(* The records.                                                            *)
(***************************************************************************)
NumBlocks == Side * Side * Side
Block == 0 .. NumBlocks - 1

\* How the game packs the palette indices of a subchunk: as many as fit into a word,
\* the first of them in the lowest bits (external).
PerWord(bits) == WordBits \div bits
Packed(grid, bits) ==
    [w \in 0 .. (NumBlocks - 1) \div PerWord(bits) |->
        SumSet({0} \union {grid[i] * 2 ^ ((i % PerWord(bits)) * bits) :
                           i \in {j \in Block : j \div PerWord(bits) = w}})]

Palettes == <<"air", "plank", "stone", "brick", "plank">>
PaletteSize(bits) == IF bits = 0 THEN 1 ELSE IF 2 ^ bits < Len(Palettes) THEN 2 ^ bits ELSE Len(Palettes)

\* A grid with at most two blocks that are not the first of the palette.
Grids(bits) ==
    {[b \in Block |-> IF b = i THEN v ELSE IF b = j THEN w ELSE 0] :
        i \in Block, j \in Block, v \in 0 .. PaletteSize(bits) - 1, w \in 0 .. PaletteSize(bits) - 1}

\* The bytes end: "no" where they should, within the first three, after these, before
\* the palette, or within its second entry.
Cuts == {"no", "start", "header", "words", "entry"}

Subchunk(version, layers, cut, bits, palette, grid) ==
    [kind |-> "subchunk", version |-> version, num_layers |-> layers, cut |-> cut, bits |-> bits,
     palette |-> palette, grid |-> grid, words |-> IF bits = 0 THEN <<>> ELSE Packed(grid, bits),
     cx |-> 1, cz |-> -1, sub_byte |-> 255]

WholeSubchunks ==
    UNION {{Subchunk(9, 1, "no", b, SubSeq(Palettes, 1, PaletteSize(b)), g) : g \in Grids(b)} :
           b \in BitsPerBlock}
OneBlock == [b \in Block |-> IF b = 0 THEN 1 ELSE 0]
OddSubchunks ==
    {Subchunk(v, l, c, b, Palettes, OneBlock) :
        v \in {1, 8, 9}, l \in {0, 1}, c \in Cuts, b \in BitsPerBlock \ {0}}
    \union {Subchunk(9, 1, "no", 0, p, OneBlock) : p \in {<<>>, <<NoName>>, <<"brick">>}}

\* An entity: the tags id and identifier, which may be missing (or be empty) or no text, and
\* Pos, which may be missing or short, or have something else than numbers.
NoTag == "missing"
Number == "a number"
Entities ==
    [kind : {"entity"}, id : {NoTag, Number, "cow", "stand"}, identifier : {NoTag, "stand"},
     pos : {"short", "numbers", "texts"}]

Records == WholeSubchunks \union OddSubchunks \union Entities \union {[kind |-> "other"]}

Worlds == {<<r>> : r \in Records}
          \union {<<q, r>> : q \in Entities \union {[kind |-> "other"]},
                             r \in OddSubchunks \union Entities}

-----------------------------------------------------------------------------
(***************************************************************************)
(* The decoders.                                                           *)
(***************************************************************************)
SignedByte(b) == IF b > 127 THEN b - 256 ELSE b

At(r, idx) ==
    <<r.cx * Side + (idx % Side),
      SignedByte(r.sub_byte) * Side + (idx \div (Side * Side)),
      r.cz * Side + ((idx \div Side) % Side)>>

\* Slip: the first index of a word is taken from its highest bits.
IndicesFromTop(words, bits) ==
    LET shifts == (WordBits + bits - 1) \div bits IN
    [i \in Block |-> (words[i \div shifts] \div 2 ^ ((shifts - 1 - (i % shifts)) * bits)) % 2 ^ bits]

\* The loop over the words, and over range(0, 32, bits_per_block) in each.
Indices(words, bits) ==
    LET shifts == (WordBits + bits - 1) \div bits IN
    [i \in Block |-> (words[i \div shifts] \div 2 ^ ((i % shifts) * bits)) % 2 ^ bits]

\* parse_nbt leaves the offset where it is when it fails, so nothing is read of the
\* entries that follow either; a block without a name is air.
ReadPalette(r) ==
    [i \in 1 .. Len(r.palette) |->
        IF (r.cut = "entry" /\ i >= 2) \/ r.palette[i] = NoName THEN "air" ELSE r.palette[i]]

\* The blocks that are yielded.
DecodeSubchunk(r) ==
    IF \/ r.cut \in {"start", "header", "words"}
       \/ r.version \notin {8, 9}
       \/ r.num_layers = 0
       \/ r.palette = <<>>
      THEN {}
      ELSE LET palette == ReadPalette(r)
               indices == IF r.bits = 0 THEN [i \in Block |-> 0] ELSE Indices(r.words, r.bits)
           IN {<<At(r, i), palette[indices[i] + 1]>> :
                 i \in {j \in Block : /\ indices[j] < Len(palette)
                                      /\ palette[indices[j] + 1] \notin NATURAL_BLOCKS}}

\* nbt.get('id') or nbt.get('identifier'), which has to be a text, and a list of three or
\* more for a position, whatever is in it.
Identifier(r) == IF r.id = NoTag THEN r.identifier ELSE r.id
DecodeEntity(r) ==
    IF Identifier(r) \notin {NoTag, Number} /\ r.pos # "short" THEN {Identifier(r)} ELSE {}

\* The loop of scan_world: what is printed and counted of each record.
Scanned(r) ==
    CASE r.kind = "subchunk" -> DecodeSubchunk(r)
      [] r.kind = "entity" -> DecodeEntity(r) \ NATURAL_ENTITIES
      [] OTHER -> {}

\* The records that end the program: the header of the storage is read before the try
\* (IndexError), and a position that is no number is only found out by the format of the
\* entity that is about to be printed.
Raises(r) ==
    \/ r.kind = "subchunk" /\ r.version = 9 /\ r.num_layers # 0 /\ r.cut = "header"
    \/ r.kind = "entity" /\ Scanned(r) # {} /\ r.pos = "texts"

-----------------------------------------------------------------------------
Locations == {"check", "move", "open", "remove", "restore", "giveup", "scan", "done", "failed"}

ScanTypeOK ==
    /\ scans \subseteq Scans
    /\ lock \in Files /\ backup \in Files /\ held \subseteq Files \X Files
    /\ pc \in [Scans -> Locations]
    /\ original_existed \in [Scans -> BOOLEAN]
    /\ found \in {NoFile, Server} /\ disturbed \in BOOLEAN

\* One scan of any world that nothing else uses, or several of an empty one.
ScanInit ==
    /\ \/ scans = {1} /\ world \in Worlds /\ lock = NoFile
       \/ scans = Scans /\ world = <<>> /\ lock \in {NoFile, Server}
    /\ backup = NoFile
    /\ held \in SUBSET (({lock} \ {NoFile}) \X {Server})
    /\ pc = [s \in Scans |-> "check"]
    /\ original_existed = [s \in Scans |-> FALSE]
    /\ found = lock
    /\ disturbed = FALSE
    /\ listing = <<>>

Goes(s, step) == pc' = [pc EXCEPT ![s] = step]
Opening(s) == pc[s] \in {"move", "open", "remove", "restore", "giveup"}

\* The locks of a process go with the database or the process.
Release(s) == held' = {h \in held : h[2] # s}

\* os.path.exists(lock_path).
Check(s) ==
    /\ pc[s] = "check"
    /\ original_existed' = [original_existed EXCEPT ![s] = lock # NoFile]
    /\ Goes(s, IF lock # NoFile THEN "move" ELSE "open")
    /\ disturbed' = (disturbed \/ \E t \in scans : Opening(t))
    /\ UNCHANGED <<scans, lockVars, found, world, listing>>

\* The move fails when the file has gone.
Move(s) ==
    /\ pc[s] = "move"
    /\ IF lock = NoFile
         THEN Goes(s, "failed") /\ UNCHANGED <<lock, backup>>
         ELSE Goes(s, "open") /\ backup' = lock /\ lock' = NoFile
    /\ UNCHANGED <<scans, held, original_existed, found, disturbed, world, listing>>

\* The LOCK that opening leaves: the one in place, or a new one.
TakenLock(s) == IF lock = NoFile THEN s ELSE lock

\* LevelDB(db_path) fails: LOCK is held, or there is something else wrong, which may be
\* found before or after LOCK was created and taken.
OpenFails(s) ==
    /\ UNCHANGED held
    /\ \/ UNCHANGED lock
       \/ (\A h \in held : h[1] # lock) /\ lock' = TakenLock(s)

OpenSucceeds(s) ==
    /\ \A h \in held : h[1] # lock
    /\ lock' = TakenLock(s)
    /\ held' = held \union {<<lock', s>>}
    /\ Goes(s, "remove")

\* Slip: an error leaves at once, without the finally.
OpenOrLeave(s) ==
    /\ pc[s] = "open"
    /\ OpenSucceeds(s) \/ (OpenFails(s) /\ Goes(s, "failed"))
    /\ UNCHANGED <<scans, backup, original_existed, found, disturbed, world, listing>>

Open(s) ==
    /\ pc[s] = "open"
    /\ OpenSucceeds(s) \/ (OpenFails(s) /\ Goes(s, "giveup"))
    /\ UNCHANGED <<scans, backup, original_existed, found, disturbed, world, listing>>

\* The LOCK of this scan is removed, if it is this scan's.
RemoveLock(s) ==
    /\ pc[s] = "remove"
    /\ lock' = NoFile
    /\ Goes(s, "restore")
    /\ UNCHANGED <<scans, backup, held, original_existed, found, disturbed, world, listing>>

\* The finally: whatever LOCK there is gives way to the one that was moved aside.
Restore(s) ==
    /\ pc[s] \in {"restore", "giveup"}
    /\ IF original_existed[s] /\ backup # NoFile
         THEN lock' = backup /\ backup' = NoFile
         ELSE UNCHANGED <<lock, backup>>
    /\ Goes(s, IF pc[s] = "restore" THEN "scan" ELSE "failed")
    /\ UNCHANGED <<scans, held, original_existed, found, disturbed, world, listing>>

\* The loop over the database and its close; an IndexError ends it at a record.
Scan(s) ==
    /\ pc[s] = "scan"
    /\ \E n \in 0 .. Len(world) :
         /\ \A i \in 1 .. n : ~Raises(world[i])
         /\ n < Len(world) => Raises(world[n + 1])
         /\ listing' = [i \in 1 .. n |-> Scanned(world[i])]
         /\ Goes(s, IF n < Len(world) THEN "failed" ELSE "done")
    /\ Release(s)
    /\ UNCHANGED <<scans, lock, backup, original_existed, found, disturbed, world>>

\* The program is killed.
Kill(s) ==
    /\ pc[s] \notin {"done", "failed"}
    /\ Goes(s, "failed")
    /\ disturbed' = (disturbed \/ Opening(s))
    /\ Release(s)
    /\ UNCHANGED <<scans, lock, backup, original_existed, found, world, listing>>

Step(s) == Check(s) \/ Move(s) \/ Open(s) \/ RemoveLock(s) \/ Restore(s) \/ Scan(s)
ScanNext == \E s \in scans : Step(s) \/ Kill(s)

ScanSpec == ScanInit /\ [][ScanNext]_scanVars

-----------------------------------------------------------------------------
(***************************************************************************)
(* Properties.                                                             *)
(***************************************************************************)
\* "Always restore the original lock (if there was one)": however opening ends, the LOCK
\* of before is there again and no copy of it is left, unless scans overlap while they
\* open the database or are killed then.  Where there was none, there is none after either,
\* or the one that an opening has left which failed.
Kept(file) == file = found \/ (found = NoFile /\ file \in scans /\ pc[file] = "failed")
LockIsKept == ~disturbed /\ (\A s \in scans : ~Opening(s)) => Kept(lock) /\ backup = NoFile

\* What the game wrote at each place of a record that is whole.
Whole(r) == r.kind = "subchunk" /\ r.cut = "no" /\ r.version \in {8, 9} /\ r.num_layers > 0
Written(r) ==
    {b \in {<<At(r, i), IF r.palette = <<>> THEN "air" ELSE r.palette[IF r.bits = 0 THEN 1 ELSE r.grid[i] + 1]>> :
              i \in Block} : b[2] \notin NATURAL_BLOCKS \union {NoName}}

\* The blocks whose indices are where the loop looks for them: all of them when the width
\* divides the word, those of the first word otherwise.
InPlace(r) ==
    {At(r, i) : i \in {j \in Block : r.bits = 0 \/ WordBits % r.bits = 0 \/ j < PerWord(r.bits)}}
Of(blocks, places) == {b \in blocks : b[1] \in places}

\* A scan that ends lists every record, and of each one that is whole the blocks in these
\* places that are not natural, with the names that the game gave them: whichever records
\* that are cut, odd or of entities come before it, as long as none of them raises.
ListingIsReliable == \A s \in scans : pc[s] = "done" =>
    /\ Len(listing) = Len(world)
    /\ \A i \in 1 .. Len(world) : Whole(world[i]) =>
           Of(listing[i], InPlace(world[i])) = Of(Written(world[i]), InPlace(world[i]))

\* "Decode a Bedrock subchunk (version 8 or 9) and yield (world_x, world_y, world_z,
\* block_name) for every non-air block whose name is NOT in NATURAL_BLOCKS."
ListingIsExact == \A s \in scans : pc[s] = "done" =>
    \A i \in 1 .. Len(world) : Whole(world[i]) => listing[i] = Written(world[i])
=============================================================================
