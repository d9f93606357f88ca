------------------------------ MODULE Storage -------------------------------
(***************************************************************************)
(* A database on disk (src/src/saxdb.c, saxdb_read_db to saxdb_flush, with *)
(* the encryption of src/src/crypto.c): saving writes a new file, renames  *)
(* it over the old one and then, if there is a key, replaces that by an    *)
(* encrypted copy; a crash may come between any two of these steps.  The   *)
(* contents of the database are a version number.  A file that does not    *)
(* parse ends the program (parse_database); one that cannot be decrypted   *)
(* with the key at hand is passed over, and the next save replaces it.     *)
(***************************************************************************)
EXTENDS Integers, Sequences

CONSTANTS
    DbKeys,         \* keys server/db_encryption_key may give
    MaxVersion, MaxFaults

VARIABLES
    up,             \* the program runs
    memory,         \* the version in memory
    key,            \* the key configured; "none": encryption is off
    file, new, enc, \* contents of the file, of ".new" and of ".enc"
    stage,          \* how far saxdb_write_db has come
    saved,          \* version that the last save to report success had in memory
    faulty,         \* a fault that is known to lose data has happened
    faults          \* how many calls have failed

fileVars == <<up, memory, key, file, new, enc, stage, saved, faulty, faults>>

NoFile == [version |-> 0, layers |-> <<>>, whole |-> FALSE, there |-> FALSE]
PlainFile(v, w) == [version |-> v, layers |-> <<>>, whole |-> w, there |-> TRUE]
Encrypted(f, k, w) ==
    [version |-> f.version, layers |-> Append(f.layers, k), whole |-> f.whole /\ w, there |-> f.there]

StorageInit ==
    /\ up = TRUE /\ memory = 0 /\ key \in DbKeys \union {"none"}
    /\ file = NoFile /\ new = NoFile /\ enc = NoFile
    /\ stage = "idle" /\ saved = 0
    /\ faulty = FALSE /\ faults = 0

Fails == faults < MaxFaults /\ faults' = faults + 1
Works == UNCHANGED faults

\* Something in memory changes, between saves.
Change ==
    /\ up /\ stage = "idle" /\ memory < MaxVersion
    /\ memory' = memory + 1
    /\ UNCHANGED <<up, key, file, new, enc, stage, saved, faulty, faults>>

-----------------------------------------------------------------------------
\* Mutant: the old file is truncated and written.
TruncateFile ==
    /\ up /\ stage = "idle" /\ stage' = "writing"
    /\ file' = PlainFile(memory, FALSE) /\ new' = PlainFile(memory, FALSE)
    /\ Works
    /\ UNCHANGED <<up, memory, key, enc, saved, faulty>>

\* saxdb_write_db, by the timer, WRITE, a command that saves or the end of the program.
OpenNew ==
    /\ up /\ stage = "idle" /\ stage' = "writing"
    /\ new' = PlainFile(memory, FALSE)
    /\ Works
    /\ UNCHANGED <<up, memory, key, file, enc, saved, faulty>>

\* The writer of the database and saxdb_flush.
WriteNew ==
    /\ stage = "writing" /\ stage' = "written"
    /\ new' = PlainFile(memory, TRUE)
    /\ Works
    /\ UNCHANGED <<up, memory, key, file, enc, saved, faulty>>

\* saxdb_flush after a write of less than all: it offers the whole length again, from the
\* place reached, and so writes what lies behind the buffer.
ShortWrite ==
    /\ stage = "writing" /\ stage' = "written"
    /\ new' = PlainFile(memory, FALSE)
    /\ faulty' = TRUE /\ Fails
    /\ UNCHANGED <<up, memory, key, file, enc, saved>>

\* A write that fails jumps back to saxdb_write_db, which removes the new file.
WriteError ==
    /\ stage = "writing" /\ stage' = "idle"
    /\ new' = NoFile
    /\ Fails
    /\ UNCHANGED <<up, memory, key, file, enc, saved, faulty>>

AfterRename == IF key = "none" THEN "idle" ELSE "encrypting"

RenameNew ==
    /\ stage = "written" /\ stage' = AfterRename
    /\ file' = new /\ new' = NoFile
    /\ saved' = IF key = "none" THEN memory ELSE saved
    /\ Works
    /\ UNCHANGED <<up, memory, key, enc, faulty>>

\* A rename that fails is logged, and the save goes on with the old file.
RenameFails ==
    /\ stage = "written" /\ stage' = AfterRename
    /\ saved' = IF key = "none" THEN memory ELSE saved
    /\ faulty' = TRUE /\ Fails
    /\ UNCHANGED <<up, memory, key, file, new, enc>>

\* crypto_db_encrypt_file, of whatever the file holds.
Encrypt ==
    /\ stage = "encrypting" /\ stage' = "encrypted"
    /\ file.there
    /\ enc' = Encrypted(file, key, TRUE)
    /\ Works
    /\ UNCHANGED <<up, memory, key, file, new, saved, faulty>>

\* It does not look at what fwrite and fclose return.
EncryptShort ==
    /\ stage = "encrypting" /\ stage' = "encrypted"
    /\ file.there
    /\ enc' = Encrypted(file, key, FALSE)
    /\ faulty' = TRUE /\ Fails
    /\ UNCHANGED <<up, memory, key, file, new, saved>>

\* It reports an error: the file stays as it is, not encrypted.
EncryptFails ==
    /\ stage = "encrypting" /\ stage' = "idle"
    /\ saved' = memory
    /\ IF file.there THEN Fails ELSE Works
    /\ UNCHANGED <<up, memory, key, file, new, enc, faulty>>

RenameEnc ==
    /\ stage = "encrypted" /\ stage' = "idle"
    /\ \/ file' = enc /\ Works
       \/ file' = file /\ Fails
    /\ enc' = NoFile /\ saved' = memory
    /\ UNCHANGED <<up, memory, key, new, faulty>>

-----------------------------------------------------------------------------
\* The program is killed, at any step, or ends.
Crash ==
    /\ up /\ up' = FALSE /\ stage' = "idle"
    /\ UNCHANGED <<memory, key, file, new, enc, saved, faulty, faults>>

\* saxdb_read_db, for a file and a key: the version read, 0 for an empty database, -1 when
\* the program gives up (explain_failure and _exit in parse_database).
Read(f, k) ==
    LET n == Len(f.layers)
    IN  IF ~f.there THEN 0
        ELSE IF n = 0 THEN IF f.whole THEN f.version ELSE -1
        ELSE IF k = "none" THEN -1
        ELSE IF f.layers[n] # k \/ ~f.whole THEN 0
        ELSE IF n = 1 THEN f.version ELSE -1

\* The program starts; the configuration may have changed.
Start(k) ==
    /\ ~up /\ Read(file, k) >= 0
    /\ up' = TRUE /\ key' = k
    /\ memory' = Read(file, k)
    /\ faulty' = (faulty \/ (file.layers # <<>> /\ k \notin {key, "none"}))
    /\ UNCHANGED <<file, new, enc, stage, saved, faults>>

StorageNext ==
    \/ Change \/ OpenNew \/ WriteNew \/ ShortWrite \/ WriteError \/ RenameNew \/ RenameFails
    \/ Encrypt \/ EncryptShort \/ EncryptFails \/ RenameEnc \/ Crash
    \/ \E k \in DbKeys \union {"none"} : Start(k)

StorageSpec == StorageInit /\ [][StorageNext]_fileVars

-----------------------------------------------------------------------------
\* Wherever the program stops, it finds at its next start what the last completed save had
\* written, or something newer (saxdb_write_db, saxdb_read_db); not after a short write, a
\* rename that failed, a full disk while encrypting or a change of key.
DataKept ==
    ~faulty => /\ saved > 0 => file.there
               /\ file.there => Read(file, IF file.layers = <<>> THEN "none" ELSE file.layers[1]) >= saved
               /\ up => memory >= saved
=============================================================================
