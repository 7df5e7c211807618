----------------------------- MODULE Encryption -----------------------------
(***************************************************************************)
(* Encryption by the application: SECURITY PROTOCOL OUT sets a key         *)
(* (vtltape.c), a WRITE records it in the header of the block and a READ   *)
(* compares it (mhvtl_io.c, vtlcart.c, ssc.c), each personality with rules *)
(* of its own.  The data itself is never encrypted.                        *)
(*                                                                         *)
(* One cartridge stays in the drive: neither unload nor load touches the   *)
(* settings.  Whether a block can be written at all is the matter of       *)
(* Cartridge.  A page with a bad header changes nothing and is left out;   *)
(* a key and its associated data fit the arrays of struct encryption.  The *)
(* status page's KEY_INSTANCE_COUNTER, one up with every accepted page,    *)
(* is left out.                                                            *)
(***************************************************************************)
EXTENDS Naturals, Sequences

CONSTANTS
    Bytes,      \* values of a byte
    Width,      \* ENCR_KEY_MAX_LEN
    Requested,  \* the keys hosts use
    Associated, \* the key associated data they send: [kind, bytes]
    EncryptModes, DecryptModes, \* the modes they set
    UkadMax,    \* personality -> the longest unauthenticated data, 32, 30 or 0
    AkadMax,    \* personality -> the longest authenticated data, 12 or 0
    MaxItems    \* bound: blocks and filemarks on the tape

\* ult3580 and hp_ultrium; t10000 and stk9x40; ibm_03592 as an E06 drive.
Personalities == {"lto", "stk", "e06"}
Strings == UNION {[1 .. n -> Bytes] : n \in 0 .. Width}

ASSUME EncryptionAssumption ==
    /\ Width \in Nat /\ MaxItems \in Nat
    /\ 0 \in Bytes /\ Requested \subseteq Strings
    /\ Associated \subseteq [kind : {"none", "ukad", "akad"}, bytes : Strings]
    /\ EncryptModes \subseteq Nat /\ DecryptModes \subseteq Nat
    /\ UkadMax \in [Personalities -> Nat] /\ AkadMax \in [Personalities -> Nat]

VARIABLES
    pm,         \* the personality
    live,       \* the daemon runs
    encrypt,    \* ENCRYPT_MODE
    decrypt,    \* DECRYPT_MODE
    key, ukad, akad, \* app_encryption_state: arrays and their lengths
    pointed,    \* app_encr_info points to it, and is not null
    enabled,    \* ENCR_E of mode page 24h
    formatted,  \* MAM_FLAGS_ENCRYPTION_FORMAT
    tape,       \* headers of the blocks and filemarks
    pos,        \* items before the head
    told        \* history: the page in force

settings == <<encrypt, decrypt, key, ukad, akad, enabled>>
medium   == <<formatted, tape, pos>>
vars     == <<pm, live, settings, pointed, medium, told>>

(* Arrays ******************************************************************)

Empty == [len |-> 0, at |-> [i \in 1 .. Width |-> 0]]

\* The loops of resp_spout(): the bytes beyond the new length are the old ones.
Filled(a, s) == [len |-> Len(s),
                 at  |-> [i \in 1 .. Width |-> IF i <= Len(s) THEN s[i] ELSE a.at[i]]]

Shortened(a) == [a EXCEPT !.len = 0]

\* What write_tape_block() copies to the header.
Held(a) == [i \in 1 .. a.len |-> a.at[i]]

Starts(s, a) == Len(s) <= a.len /\ \A i \in 1 .. Len(s) : s[i] = a.at[i]

\* The comparison of a header with the array, in reads and the status page.
Same(s, a) == /\ Len(s) = a.len
              /\ \A i \in 1 .. Len(s) : s[i] = a.at[i]

(* SECURITY PROTOCOL OUT ***************************************************)

Pages == [encrypt : EncryptModes, decrypt : DecryptModes, key : Requested, kad : Associated]
NoPage == [encrypt |-> 0, decrypt |-> 0, key |-> <<>>, kad |-> [kind |-> "none", bytes |-> <<>>]]

\* The unauthenticated data of a page.
UkadOf(page) == IF page.kad.kind = "ukad" THEN page.kad.bytes ELSE <<>>

\* td4_, hp_lto_, t10k_, T9840_ and e06_kad_validation().
Refused(page) ==
    LET size(kind) == IF page.kad.kind = kind THEN Len(page.kad.bytes) ELSE 0
    IN  \/ size("ukad") > UkadMax[pm]
        \/ size("akad") > AkadMax[pm]
        \/ pm # "stk" /\ page.encrypt = 0 /\ size("ukad") + size("akad") > 0

Stored(a, page, kind) ==
    IF page.kad.kind = kind THEN Filled(a, page.kad.bytes) ELSE Shortened(a)

\* update_ult_encryption_mode(); the others have no such page.
ModePage(mode) == IF pm = "lto" THEN mode # 0 ELSE enabled

Accept(page) ==
    /\ ~Refused(page)
    /\ encrypt' = page.encrypt /\ decrypt' = page.decrypt
    /\ key'  = Filled(key, page.key)
    /\ ukad' = Stored(ukad, page, "ukad")
    /\ akad' = Stored(akad, page, "akad")
    /\ enabled' = ModePage(page.encrypt)
    /\ told' = page

\* The key before is gone, and mode page 24h is left.
Refuse(page) ==
    /\ Refused(page)
    /\ encrypt' = 0 /\ decrypt' = page.decrypt
    /\ key'  = Shortened(Filled(key, page.key))
    /\ ukad' = Shortened(Stored(ukad, page, "ukad"))
    /\ akad' = Shortened(Stored(akad, page, "akad"))
    /\ told' = [NoPage EXCEPT !.decrypt = page.decrypt]
    /\ UNCHANGED enabled

SecurityOut ==
    /\ live
    /\ \E page \in Pages : Accept(page) \/ Refuse(page)
    /\ UNCHANGED <<pm, live, pointed, medium>>

(* Writing *****************************************************************)

Label == pm = "e06" /\ pos = 0

KeptPointed == (encrypt = 2 \/ pointed) /\ ~Label

\* setup_crypto(), with what valid_encryption_media_E06() takes back: the label
\* of an encrypted 3592 is written in the clear.
Pointed == encrypt = 2 /\ ~Label

FlagStays == formatted \/ (Label /\ encrypt = 2)

Formatted == IF Label THEN encrypt = 2 ELSE formatted

\* valid_encryption_media_E06() sets a sense, which setup_crypto() does not see.
Unformatted == pm = "e06" /\ pos # 0 /\ encrypt # 0 /\ ~formatted

\* History: what the page in force asks for a block.
Clear == [encrypted |-> FALSE, key |-> <<>>, ukad |-> <<>>]
Asked == IF told.encrypt = 2
         THEN [encrypted |-> TRUE, key |-> told.key, ukad |-> UkadOf(told)]
         ELSE Clear

Header ==
    [kind |-> "data", encrypted |-> Pointed,
     key  |-> IF Pointed THEN Held(key) ELSE <<>>,
     ukad |-> IF Pointed THEN Held(ukad) ELSE <<>>,
     akad |-> IF Pointed THEN Held(akad) ELSE <<>>,
     asked |-> Asked, good |-> ~Unformatted]

Mark == [kind |-> "mark", encrypted |-> FALSE, key |-> <<>>, ukad |-> <<>>, akad |-> <<>>,
         asked |-> Clear, good |-> TRUE]

Put(item) == tape' = Append(SubSeq(tape, 1, pos), item) /\ pos' = pos + 1

\* The block is written, even if the host is told that it is not.
WriteBlock ==
    /\ live /\ pos < MaxItems
    /\ pointed' = Pointed /\ formatted' = Formatted
    /\ Put(Header)
    /\ UNCHANGED <<pm, live, settings, told>>

\* Filemarks do not go through setup_crypto().
WriteMark ==
    /\ live /\ pos < MaxItems
    /\ Put(Mark)
    /\ UNCHANGED <<pm, live, settings, pointed, formatted, told>>

(* Reading *****************************************************************)

\* raw_pos holds the header of the item behind the head, or end of data.
AtItem    == pos < Len(tape)
Item      == tape[pos + 1]
Encrypted == AtItem /\ Item.encrypted

\* app_encr_info is followed.
Follows == Encrypted /\ decrypt > 1

KeyMatches == Same(Item.key, key)

\* valid_encryption_blk_t10k(), valid_encryption_blk_9840().
UkadMatches == pm = "stk" => Same(Item.ukad, ukad)

\* valid_encryption_blk(), before every block, filemark and end of data.
Valid ==
    IF Encrypted THEN decrypt > 1 /\ KeyMatches /\ UkadMatches
                 ELSE decrypt # 2

\* resp_spin_page_20(): 5 is "encrypted, correct key", 6 "need key".
NextBlockStatus ==
    IF Encrypted THEN IF KeyMatches THEN 5 ELSE 6
    ELSE IF AtItem /\ Item.kind = "data" THEN 3 ELSE 2

\* One round of complete_read_6().
ReadItem ==
    /\ live /\ ~(Follows /\ ~pointed)
    /\ Valid /\ AtItem
    /\ pos' = pos + 1
    /\ UNCHANGED <<pm, live, settings, pointed, formatted, tape, told>>

\* valid_encryption_blk() reads the length of the key through a null pointer.
ReadDies ==
    /\ live /\ Follows /\ ~pointed
    /\ live' = FALSE
    /\ UNCHANGED <<pm, settings, pointed, medium, told>>

\* LOCATE, SPACE, REWIND
Position ==
    /\ live
    /\ pos' \in 0 .. Len(tape)
    /\ UNCHANGED <<pm, live, settings, pointed, formatted, tape, told>>

(* The daemon **************************************************************)

\* init_lu_ssc(), and the library loads the tape again.
Fresh ==
    /\ live' = TRUE
    /\ encrypt' = 0 /\ decrypt' = 0
    /\ key' = Empty /\ ukad' = Empty /\ akad' = Empty
    /\ pointed' = TRUE /\ enabled' = FALSE
    /\ pos' = 0
    /\ told' = NoPage

\* The daemon is stopped or killed, or has died, and starts.
Restart == Fresh /\ UNCHANGED <<pm, formatted, tape>>

Init ==
    /\ pm \in Personalities
    /\ live = TRUE
    /\ encrypt = 0 /\ decrypt = 0
    /\ key = Empty /\ ukad = Empty /\ akad = Empty
    /\ pointed = TRUE /\ enabled = FALSE
    /\ formatted = FALSE /\ tape = <<>> /\ pos = 0
    /\ told = NoPage

Next == SecurityOut \/ WriteBlock \/ WriteMark \/ ReadItem \/ ReadDies \/ Position \/ Restart

Spec == Init /\ [][Next]_vars
=============================================================================
