-------------------------- MODULE EncryptionProps ---------------------------
(* What encryption by the application promises the host. *)
EXTENDS Encryption

Arrays == [len : 0 .. Width, at : [1 .. Width -> Bytes]]

Headers == [kind : {"data", "mark"}, encrypted : BOOLEAN,
            key : Strings, ukad : Strings, akad : Strings,
            asked : [encrypted : BOOLEAN, key : Strings, ukad : Strings], good : BOOLEAN]

\* A page, or none but for the decryption mode.
InForce == [encrypt : EncryptModes \cup {0}, decrypt : DecryptModes \cup {0},
            key : Strings, kad : [kind : {"none", "ukad", "akad"}, bytes : Strings]]

\* The variables have the types of their declarations in ssc.h and vtlcart.h.
TypeOK ==
    /\ pm \in Personalities /\ live \in BOOLEAN
    /\ encrypt \in Nat /\ decrypt \in Nat
    /\ key \in Arrays /\ ukad \in Arrays /\ akad \in Arrays
    /\ pointed \in BOOLEAN /\ enabled \in BOOLEAN /\ formatted \in BOOLEAN
    /\ tape \in Seq(Headers) /\ pos \in 0 .. Len(tape)
    /\ told \in InForce

\* A data block is recorded as encrypted exactly if the page in force when it
\* was written says so, and then under its key: setup_crypto() and
\* write_tape_block() carry the settings over, whatever was written and read
\* in between.  A refused page is in force too: the drive then has no key.  The
\* label of a 3592 is in the clear.
WrittenAsTold ==
    \A i \in 1 .. Len(tape) :
        LET b == tape[i] IN
        b.kind = "data" =>
            IF b.asked.encrypted /\ ~(pm = "e06" /\ i = 1)
            THEN b.encrypted /\ b.key = b.asked.key /\ b.ukad = b.asked.ukad
            ELSE ~b.encrypted

\* A host that sets a key reads exactly the blocks that were written under this
\* key (and on an STK drive under this associated data), and the status of the
\* next block tells them apart: through writes with other keys, refused pages
\* and restarts, and with what is left of longer keys in the arrays.  The
\* exception is a pointer that setup_crypto() has left null (ReadDies).
ReadAsTold ==
    (live /\ Encrypted) =>
       /\ (told.decrypt > 1 /\ pointed) =>
            (Valid <=> /\ Item.asked.key = told.key
                       /\ pm = "stk" => Item.asked.ukad = UkadOf(told))
       /\ NextBlockStatus = 5 <=> Item.asked.key = told.key

\* On a 3592 E06 an encrypted block that the host was told is written lies on
\* a cartridge formatted for encryption, and behind a label: a block in the
\* clear, written while a key was in place.  That is the extra check of
\* valid_encryption_media_E06() and its setting and clearing of the flag, which
\* happen only as a block is written over the first.  The exception is a
\* filemark written there: it takes the label away and leaves the flag.
LabelFirst ==
    pm = "e06" =>
        \A i \in 1 .. Len(tape) :
            tape[i].encrypted =>
                /\ i > 1
                /\ tape[i].good =>
                     /\ formatted
                     /\ tape[1].kind = "data" =>
                          ~tape[1].encrypted /\ tape[1].asked.encrypted
=============================================================================
