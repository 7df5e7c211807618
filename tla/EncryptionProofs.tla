-------------------------- MODULE EncryptionProofs --------------------------
(***************************************************************************)
(* Proofs about encryption by the application: its types, that blocks are  *)
(* recorded as the page in force says, that they are read under their own  *)
(* key only, and the label of a 3592.                                      *)
(***************************************************************************)
EXTENDS EncryptionProps, SequenceTheorems, TLAPS

\* The settings of the drive are those of the page in force.
SettingsTold ==
    /\ encrypt = told.encrypt /\ decrypt = told.decrypt
    /\ Held(key) = told.key /\ Held(ukad) = UkadOf(told)

\* Only blocks are encrypted.
MarksClear == \A i \in 1 .. Len(tape) : tape[i].encrypted => tape[i].kind = "data"

\* The flag is that of the first block: it says that a key was in place.
LabelKeyed ==
    (pm = "e06" /\ formatted) =>
        \A i \in 1 .. Len(tape) : (i = 1 /\ tape[i].kind = "data") => tape[i].asked.encrypted

\* A block that was acknowledged is on a formatted cartridge.
OnFormatted ==
    pm = "e06" =>
        \A i \in 1 .. Len(tape) :
            tape[i].encrypted => i > 1 /\ (tape[i].good => formatted)

IInv == TypeOK /\ SettingsTold /\ MarksClear /\ WrittenAsTold /\ LabelKeyed /\ OnFormatted

(* Arrays ******************************************************************)

\* The length of a string, and the string itself as a function.
LEMMA StringLength ==
    ASSUME NEW s \in Strings
    PROVE  Len(s) \in 0 .. Width /\ s \in [1 .. Len(s) -> Bytes]
<1>1. PICK n \in 0 .. Width : s \in [1 .. n -> Bytes]
  BY DEF Strings
<1>2. n \in Nat
  BY <1>1, EncryptionAssumption
<1>3. Len(s) = n
  BY <1>1, <1>2
<1> QED
  BY <1>1, <1>3

\* The empty string is one.
LEMMA NoString == <<>> \in Strings /\ Len(<<>>) = 0
<1>1. <<>> \in [1 .. 0 -> Bytes]
  OBVIOUS
<1>2. 0 \in 0 .. Width
  BY EncryptionAssumption
<1> QED
  BY <1>1, <1>2 DEF Strings

\* What the header of a block gets is a string.
LEMMA HeldString ==
    ASSUME NEW a \in Arrays
    PROVE  Held(a) \in Strings /\ Len(Held(a)) = a.len
<1>1. a.len \in 0 .. Width /\ a.at \in [1 .. Width -> Bytes]
  BY DEF Arrays
<1>2. Held(a) \in [1 .. a.len -> Bytes]
  BY <1>1, EncryptionAssumption DEF Held
<1>3. Held(a) \in Strings
  BY <1>1, <1>2 DEF Strings
<1>4. Len(Held(a)) = a.len
  BY <1>1, <1>2, EncryptionAssumption
<1> QED
  BY <1>3, <1>4

\* The loops of resp_spout() store a string, whatever the array held.
LEMMA FilledHolds ==
    ASSUME NEW a \in Arrays, NEW s \in Strings
    PROVE  Filled(a, s) \in Arrays /\ Held(Filled(a, s)) = s
<1>1. Len(s) \in 0 .. Width /\ s \in [1 .. Len(s) -> Bytes]
  BY StringLength
<1>2. a.at \in [1 .. Width -> Bytes]
  BY DEF Arrays
<1>3. \A i \in 1 .. Width : (IF i <= Len(s) THEN s[i] ELSE a.at[i]) \in Bytes
  BY <1>1, <1>2, EncryptionAssumption
<1>4. Filled(a, s) \in Arrays
  BY <1>1, <1>3 DEF Filled, Arrays
<1>5. Filled(a, s).len = Len(s)
      /\ \A i \in 1 .. Len(s) : Filled(a, s).at[i] = s[i]
  BY <1>1, EncryptionAssumption DEF Filled
<1>6. Held(Filled(a, s)) = [i \in 1 .. Len(s) |-> s[i]]
  BY <1>5 DEF Held
<1>7. [i \in 1 .. Len(s) |-> s[i]] = s
  BY <1>1
<1> QED
  BY <1>4, <1>6, <1>7

\* An array without a length holds nothing.
LEMMA ShortenedHolds ==
    ASSUME NEW a \in Arrays
    PROVE  Shortened(a) \in Arrays /\ Held(Shortened(a)) = <<>>
<1>1. Shortened(a) \in Arrays /\ Shortened(a).len = 0
  BY EncryptionAssumption DEF Shortened, Arrays
<1>2. Held(Shortened(a)) = [i \in 1 .. 0 |-> Shortened(a).at[i]]
  BY <1>1 DEF Held
<1>3. [i \in 1 .. 0 |-> Shortened(a).at[i]] = <<>>
  OBVIOUS
<1> QED
  BY <1>1, <1>2, <1>3

\* Lengths and bytes are compared up to the length: equal strings, and no others.
LEMMA SameHeld ==
    ASSUME NEW a \in Arrays, NEW s \in Strings
    PROVE  Same(s, a) <=> s = Held(a)
<1>1. Len(s) \in 0 .. Width /\ s \in [1 .. Len(s) -> Bytes]
  BY StringLength
<1>2. Len(Held(a)) = a.len /\ a.len \in 0 .. Width
  BY HeldString DEF Arrays
<1>3. ASSUME Same(s, a) PROVE s = Held(a)
  <2>1. Len(s) = a.len /\ \A i \in 1 .. Len(s) : s[i] = a.at[i]
    BY <1>3 DEF Same
  <2>2. Held(a) = [i \in 1 .. Len(s) |-> s[i]]
    BY <2>1 DEF Held
  <2> QED
    BY <1>1, <2>2
<1>4. ASSUME s = Held(a) PROVE Same(s, a)
  BY <1>2, <1>4 DEF Same, Held
<1> QED
  BY <1>3, <1>4

(* The tape ****************************************************************)

\* An item is put behind the head, and ends the tape.
LEMMA PutItem ==
    ASSUME tape \in Seq(Headers), pos \in 0 .. Len(tape), NEW item \in Headers, Put(item)
    PROVE  /\ tape' \in Seq(Headers) /\ Len(tape') = pos + 1 /\ pos' = pos + 1
           /\ tape'[pos + 1] = item
           /\ \A i \in 1 .. pos : tape'[i] = tape[i]
<1> DEFINE before == SubSeq(tape, 1, pos)
<1>1. Len(tape) \in Nat /\ pos \in Int /\ \A i \in 1 .. pos : tape[i] \in Headers
  OBVIOUS
<1>2. before \in Seq(Headers) /\ Len(before) = pos /\ \A i \in 1 .. pos : before[i] = tape[i]
  BY <1>1, SubSeqProperties
<1>3. tape' = Append(before, item) /\ pos' = pos + 1
  BY DEF Put
<1> HIDE DEF before
<1> QED
  BY <1>2, <1>3, AppendProperties

\* The header of a block to be written, as the page in force asks for it.
LEMMA HeaderAsked ==
    ASSUME TypeOK, SettingsTold
    PROVE  /\ Header \in Headers /\ Header.kind = "data"
           /\ IF Header.asked.encrypted /\ ~Label
              THEN Header.encrypted /\ Header.key = Header.asked.key
                                    /\ Header.ukad = Header.asked.ukad
              ELSE ~Header.encrypted
           /\ Header.asked.encrypted <=> encrypt = 2
           /\ Header.encrypted => /\ ~Label /\ encrypt # 0
                                  /\ (Header.good <=> ~Unformatted)
<1>1. told \in InForce /\ told.key \in Strings /\ UkadOf(told) \in Strings
  BY NoString DEF TypeOK, InForce, UkadOf
<1>2. Held(key) \in Strings /\ Held(ukad) \in Strings /\ Held(akad) \in Strings
  BY HeldString DEF TypeOK
<1>3. Asked \in [encrypted : BOOLEAN, key : Strings, ukad : Strings]
  BY <1>1, NoString DEF Asked, Clear
<1>4. Pointed \in BOOLEAN /\ Unformatted \in BOOLEAN
  BY DEF Pointed, Unformatted, TypeOK
<1>5. Header \in Headers
  BY <1>2, <1>3, <1>4, NoString, Zenon DEF Header, Headers
<1>6. /\ Header.kind = "data" /\ Header.asked = Asked
      /\ Header.encrypted <=> Pointed
      /\ Header.good <=> ~Unformatted
      /\ Pointed => Header.key = Held(key) /\ Header.ukad = Held(ukad)
  BY Zenon DEF Header
<1>7. Asked.encrypted <=> encrypt = 2
  BY DEF Asked, Clear, SettingsTold
<1>8. Pointed => Asked.key = Held(key) /\ Asked.ukad = Held(ukad)
  BY DEF Pointed, Asked, SettingsTold
<1> QED
  BY <1>5, <1>6, <1>7, <1>8 DEF Pointed

(* The invariant ***********************************************************)

\* No key is set and the tape is blank.
LEMMA InitIInv == Init => IInv
<1> SUFFICES ASSUME Init PROVE IInv
  OBVIOUS
<1>1. Empty \in Arrays /\ Empty.len = 0
  BY EncryptionAssumption DEF Empty, Arrays
<1>2. NoPage \in InForce /\ UkadOf(NoPage) = <<>>
  BY NoString DEF NoPage, InForce, UkadOf
<1>3. Held(Empty) = <<>>
  BY <1>1 DEF Held
<1>4. tape = <<>> /\ Len(tape) = 0 /\ tape \in Seq(Headers)
  BY DEF Init
<1>5. TypeOK
  <2>1. pos \in 0 .. Len(tape) /\ encrypt \in Nat /\ decrypt \in Nat
    BY <1>4 DEF Init
  <2>2. /\ live \in BOOLEAN /\ pointed \in BOOLEAN /\ enabled \in BOOLEAN
        /\ formatted \in BOOLEAN
    BY DEF Init
  <2>3. /\ pm \in Personalities /\ told \in InForce
        /\ key \in Arrays /\ ukad \in Arrays /\ akad \in Arrays
    BY <1>1, <1>2 DEF Init
  <2> QED
    BY <1>4, <2>1, <2>2, <2>3, Zenon DEF TypeOK
<1>6. SettingsTold
  BY <1>2, <1>3 DEF Init, SettingsTold, NoPage
<1>7. MarksClear /\ WrittenAsTold /\ LabelKeyed /\ OnFormatted
  BY <1>4 DEF MarksClear, WrittenAsTold, LabelKeyed, OnFormatted
<1> QED
  BY <1>5, <1>6, <1>7 DEF IInv

\* What is on the tape stays true of it.
LEMMA TapeKept ==
    ASSUME IInv, UNCHANGED <<pm, formatted, tape>>
    PROVE  MarksClear' /\ WrittenAsTold' /\ LabelKeyed' /\ OnFormatted'
BY DEF IInv, MarksClear, WrittenAsTold, LabelKeyed, OnFormatted

\* A page, accepted or refused.
LEMMA StepSecurityOut == IInv /\ SecurityOut => IInv'
<1> SUFFICES ASSUME IInv, SecurityOut PROVE IInv'
  OBVIOUS
<1> USE EncryptionAssumption
<1>1. PICK page \in Pages : Accept(page) \/ Refuse(page)
  BY DEF SecurityOut
<1>2. /\ page.encrypt \in EncryptModes /\ page.decrypt \in DecryptModes
      /\ page.key \in Strings
      /\ page.kad.kind \in {"none", "ukad", "akad"} /\ page.kad.bytes \in Strings
  <2>1. page.kad \in Associated /\ page.key \in Requested
    BY DEF Pages
  <2> QED
    BY <2>1 DEF Pages
<1>3. key \in Arrays /\ ukad \in Arrays /\ akad \in Arrays
  BY DEF IInv, TypeOK
<1>4. Filled(key, page.key) \in Arrays /\ Held(Filled(key, page.key)) = page.key
  BY <1>2, <1>3, FilledHolds
<1>5. Stored(ukad, page, "ukad") \in Arrays /\ Held(Stored(ukad, page, "ukad")) = UkadOf(page)
  BY <1>2, <1>3, FilledHolds, ShortenedHolds DEF Stored, UkadOf
<1>6. Stored(akad, page, "akad") \in Arrays
  BY <1>2, <1>3, FilledHolds, ShortenedHolds DEF Stored
<1>7. UNCHANGED <<pm, live, pointed, formatted, tape, pos>>
  BY DEF SecurityOut, medium
<1>8. MarksClear' /\ WrittenAsTold' /\ LabelKeyed' /\ OnFormatted'
  BY <1>7, TapeKept
<1>9. CASE Accept(page)
  <2>1. encrypt' \in Nat /\ decrypt' \in Nat /\ enabled' \in BOOLEAN
    BY <1>2, <1>9 DEF Accept, ModePage, IInv, TypeOK
  <2>2. key' \in Arrays /\ ukad' \in Arrays /\ akad' \in Arrays
    BY <1>4, <1>5, <1>6, <1>9 DEF Accept
  <2>3. told' \in InForce
    BY <1>2, <1>9, <1>1 DEF Accept, Pages, InForce
  <2>4. TypeOK'
    BY <1>7, <2>1, <2>2, <2>3 DEF IInv, TypeOK
  <2>5. SettingsTold'
    BY <1>4, <1>5, <1>9 DEF Accept, SettingsTold, UkadOf
  <2> QED
    BY <1>8, <2>4, <2>5 DEF IInv
<1>10. CASE Refuse(page)
  <2>1. encrypt' = 0 /\ decrypt' = page.decrypt /\ enabled' = enabled
    BY <1>10 DEF Refuse
  <2>2. /\ key' \in Arrays /\ ukad' \in Arrays /\ akad' \in Arrays
        /\ Held(key') = <<>> /\ Held(ukad') = <<>>
    BY <1>4, <1>5, <1>6, <1>10, ShortenedHolds DEF Refuse
  <2>3. told' = [NoPage EXCEPT !.decrypt = page.decrypt]
    BY <1>10 DEF Refuse
  <2>4. told' \in InForce
    BY <1>2, <2>3, NoString DEF NoPage, InForce
  <2>5. TypeOK'
    BY <1>2, <1>7, <2>1, <2>2, <2>4 DEF IInv, TypeOK
  <2>6. SettingsTold'
    BY <2>1, <2>2, <2>3 DEF SettingsTold, UkadOf, NoPage
  <2> QED
    BY <1>8, <2>5, <2>6 DEF IInv
<1> QED
  BY <1>1, <1>9, <1>10

\* A block: recorded as asked, and on a 3592 behind the label.
LEMMA StepWriteBlock == IInv /\ WriteBlock => IInv'
<1> SUFFICES ASSUME IInv, WriteBlock PROVE IInv'
  OBVIOUS
<1>0. TypeOK /\ SettingsTold /\ tape \in Seq(Headers) /\ pos \in 0 .. Len(tape)
      /\ Len(tape) \in Nat
  BY DEF IInv, TypeOK
<1>1. /\ Header \in Headers /\ Header.kind = "data"
      /\ IF Header.asked.encrypted /\ ~Label
         THEN Header.encrypted /\ Header.key = Header.asked.key
                               /\ Header.ukad = Header.asked.ukad
         ELSE ~Header.encrypted
      /\ Header.asked.encrypted <=> encrypt = 2
      /\ Header.encrypted => ~Label /\ encrypt # 0 /\ (Header.good <=> ~Unformatted)
  BY <1>0, HeaderAsked
<1>2. /\ tape' \in Seq(Headers) /\ Len(tape') = pos + 1 /\ pos' = pos + 1
      /\ tape'[pos + 1] = Header
      /\ \A i \in 1 .. pos : tape'[i] = tape[i]
  BY <1>0, <1>1, PutItem DEF WriteBlock
<1>3. UNCHANGED <<pm, live, encrypt, decrypt, key, ukad, akad, enabled, told>>
  BY DEF WriteBlock, settings
<1>4. pointed' = Pointed /\ formatted' = Formatted
  BY DEF WriteBlock
<1>5. TypeOK'
  <2>1. pointed' \in BOOLEAN /\ formatted' \in BOOLEAN
    BY <1>0, <1>4 DEF Pointed, Formatted, TypeOK
  <2>2. tape' \in Seq(Headers) /\ pos' \in 0 .. Len(tape')
    BY <1>0, <1>2
  <2> QED
    BY <1>0, <1>3, <2>1, <2>2 DEF TypeOK
<1>6. SettingsTold'
  BY <1>0, <1>3 DEF SettingsTold, UkadOf
<1>7. MarksClear'
  BY <1>0, <1>1, <1>2 DEF IInv, MarksClear
<1>8. WrittenAsTold'
  <2> SUFFICES ASSUME NEW i \in 1 .. Len(tape'), tape'[i].kind = "data"
               PROVE  IF tape'[i].asked.encrypted /\ ~(pm' = "e06" /\ i = 1)
                      THEN /\ tape'[i].encrypted
                           /\ tape'[i].key = tape'[i].asked.key
                           /\ tape'[i].ukad = tape'[i].asked.ukad
                      ELSE ~tape'[i].encrypted
    BY DEF WrittenAsTold
  <2>1. CASE i \in 1 .. pos
    BY <1>0, <1>2, <1>3, <2>1 DEF IInv, WrittenAsTold
  <2>2. CASE i = pos + 1
    BY <1>0, <1>1, <1>2, <1>3, <2>2 DEF Label
  <2> QED
    BY <1>0, <1>2, <2>1, <2>2
<1>9. OnFormatted'
  <2> SUFFICES ASSUME pm = "e06", NEW i \in 1 .. Len(tape'), tape'[i].encrypted
               PROVE  i > 1 /\ (tape'[i].good => formatted')
    BY <1>3 DEF OnFormatted
  <2>1. CASE i \in 1 .. pos
    <3>1. tape[i].encrypted /\ i \in 1 .. Len(tape) /\ tape'[i] = tape[i]
      BY <1>0, <1>2, <2>1
    <3>2. i > 1 /\ (tape[i].good => formatted)
      BY <3>1 DEF IInv, OnFormatted
    <3>3. formatted' = formatted
      BY <1>0, <1>4, <2>1 DEF Formatted, Label
    <3> QED
      BY <3>1, <3>2, <3>3
  <2>2. CASE i = pos + 1
    <3>1. Header.encrypted /\ tape'[i] = Header
      BY <1>2, <2>2
    <3>2. ~Label /\ encrypt # 0 /\ (Header.good <=> ~Unformatted)
      BY <1>1, <3>1
    <3>3. pos # 0 /\ formatted' = formatted
      BY <1>4, <3>2 DEF Label, Formatted
    <3>4. Header.good => formatted
      BY <3>2, <3>3 DEF Unformatted
    <3> QED
      BY <1>0, <2>2, <3>1, <3>3, <3>4
  <2> QED
    BY <1>0, <1>2, <2>1, <2>2
<1>10. LabelKeyed'
  <2>1. CASE pos = 0
    <3>1. pm = "e06" /\ formatted' => Header.asked.encrypted
      BY <1>1, <1>4, <2>1 DEF Formatted, Label
    <3> QED
      BY <1>2, <1>3, <2>1, <3>1 DEF LabelKeyed
  <2>2. CASE pos # 0
    <3>1. formatted' = formatted
      BY <1>4, <2>2 DEF Formatted, Label
    <3>2. 1 \in 1 .. Len(tape) /\ tape'[1] = tape[1]
      BY <1>0, <1>2, <2>2
    <3> QED
      BY <1>3, <3>1, <3>2 DEF IInv, LabelKeyed
  <2> QED
    BY <2>1, <2>2
<1> QED
  BY <1>5, <1>6, <1>7, <1>8, <1>9, <1>10 DEF IInv

\* A filemark is never encrypted.
LEMMA StepWriteMark == IInv /\ WriteMark => IInv'
<1> SUFFICES ASSUME IInv, WriteMark PROVE IInv'
  OBVIOUS
<1>0. TypeOK /\ SettingsTold /\ tape \in Seq(Headers) /\ pos \in 0 .. Len(tape)
      /\ Len(tape) \in Nat
  BY DEF IInv, TypeOK
<1>1. Mark \in Headers /\ Mark.kind = "mark" /\ Mark.encrypted = FALSE
  BY NoString DEF Mark, Headers, Clear
<1>2. /\ tape' \in Seq(Headers) /\ Len(tape') = pos + 1 /\ pos' = pos + 1
      /\ tape'[pos + 1] = Mark
      /\ \A i \in 1 .. pos : tape'[i] = tape[i]
  BY <1>0, <1>1, PutItem DEF WriteMark
<1>3. UNCHANGED <<pm, live, encrypt, decrypt, key, ukad, akad, enabled, pointed,
                  formatted, told>>
  BY DEF WriteMark, settings
<1>4. \A i \in 1 .. Len(tape') :
         \/ i \in 1 .. Len(tape) /\ tape'[i] = tape[i]
         \/ tape'[i] = Mark
  BY <1>0, <1>2
<1>5. TypeOK'
  <2>1. tape' \in Seq(Headers) /\ pos' \in 0 .. Len(tape')
    BY <1>0, <1>2
  <2> QED
    BY <1>0, <1>3, <2>1 DEF TypeOK
<1>6. SettingsTold'
  BY <1>0, <1>3 DEF SettingsTold, UkadOf
<1>7. MarksClear'
  BY <1>1, <1>4 DEF IInv, MarksClear
<1>8. WrittenAsTold'
  BY <1>1, <1>3, <1>4 DEF IInv, WrittenAsTold
<1>9. OnFormatted'
  BY <1>1, <1>3, <1>4 DEF IInv, OnFormatted
<1>10. LabelKeyed'
  BY <1>1, <1>3, <1>4 DEF IInv, LabelKeyed
<1> QED
  BY <1>5, <1>6, <1>7, <1>8, <1>9, <1>10 DEF IInv

\* Every step keeps it.
LEMMA StepIInv == IInv /\ [Next]_vars => IInv'
<1> SUFFICES ASSUME IInv, [Next]_vars PROVE IInv'
  OBVIOUS
<1>1. CASE SecurityOut
  BY <1>1, StepSecurityOut
<1>2. CASE WriteBlock
  BY <1>2, StepWriteBlock
<1>3. CASE WriteMark
  BY <1>3, StepWriteMark
<1>4. CASE ReadItem \/ ReadDies \/ Position
  <2>1. UNCHANGED <<pm, encrypt, decrypt, key, ukad, akad, enabled, pointed,
                    formatted, tape, told>>
    BY <1>4 DEF ReadItem, ReadDies, Position, settings, medium
  <2>2. live' \in BOOLEAN /\ pos' \in 0 .. Len(tape)
    <3>1. pos \in 0 .. Len(tape) /\ Len(tape) \in Nat /\ live \in BOOLEAN
      BY DEF IInv, TypeOK
    <3>2. live' \in BOOLEAN
      BY <1>4, <3>1 DEF ReadItem, ReadDies, Position
    <3>3. pos' \in 0 .. Len(tape)
      <4>1. ASSUME ReadItem PROVE pos' = pos + 1 /\ pos < Len(tape)
        BY <4>1 DEF ReadItem, AtItem
      <4>2. ASSUME ReadDies PROVE pos' = pos
        BY <4>2 DEF ReadDies, medium
      <4>3. ASSUME Position PROVE pos' \in 0 .. Len(tape)
        BY <4>3 DEF Position
      <4> QED
        BY <1>4, <3>1, <4>1, <4>2, <4>3
    <3> QED
      BY <3>2, <3>3
  <2>3. TypeOK'
    BY <2>1, <2>2 DEF IInv, TypeOK
  <2>4. SettingsTold'
    BY <2>1 DEF IInv, SettingsTold, UkadOf
  <2> QED
    BY <2>1, <2>3, <2>4, TapeKept DEF IInv
<1>5. CASE Restart
  <2>1. UNCHANGED <<pm, formatted, tape>> /\ Fresh
    BY <1>5 DEF Restart
  <2>2. Empty \in Arrays /\ Empty.len = 0
    BY EncryptionAssumption DEF Empty, Arrays
  <2>3. NoPage \in InForce /\ UkadOf(NoPage) = <<>>
    BY NoString DEF NoPage, InForce, UkadOf
  <2>4. Held(Empty) = <<>>
    BY <2>2 DEF Held
  <2>5. pos' = 0 /\ Len(tape) \in Nat
    BY <2>1 DEF Fresh, IInv, TypeOK
  <2>6. TypeOK'
    <3>1. pos' \in 0 .. Len(tape') /\ encrypt' \in Nat /\ decrypt' \in Nat
      BY <2>1, <2>5 DEF Fresh
    <3>2. /\ live' \in BOOLEAN /\ pointed' \in BOOLEAN /\ enabled' \in BOOLEAN
          /\ formatted' \in BOOLEAN
      BY <2>1 DEF Fresh, IInv, TypeOK
    <3>3. /\ pm' \in Personalities /\ told' \in InForce /\ tape' \in Seq(Headers)
          /\ key' \in Arrays /\ ukad' \in Arrays /\ akad' \in Arrays
      BY <2>1, <2>2, <2>3 DEF Fresh, IInv, TypeOK
    <3> QED
      BY <3>1, <3>2, <3>3, Zenon DEF TypeOK
  <2>7. SettingsTold'
    BY <2>1, <2>3, <2>4 DEF Fresh, SettingsTold, NoPage, UkadOf
  <2> QED
    BY <2>1, <2>6, <2>7, TapeKept DEF IInv
<1>6. CASE UNCHANGED vars
  <2>1. TypeOK' /\ SettingsTold'
    BY <1>6 DEF IInv, TypeOK, SettingsTold, UkadOf, vars, settings, medium
  <2> QED
    BY <1>6, <2>1, TapeKept DEF IInv, vars, medium
<1> QED
  BY <1>1, <1>2, <1>3, <1>4, <1>5, <1>6 DEF Next

\* It holds in every state.
LEMMA Invariance == Spec => []IInv
BY InitIInv, StepIInv, PTL DEF Spec

(* Theorems ****************************************************************)

\* The settings, the arrays and the headers keep their types.
THEOREM TypeCorrect == Spec => []TypeOK
<1>1. IInv => TypeOK
  BY DEF IInv
<1> QED
  BY <1>1, Invariance, PTL

\* For keys of any length and any number of blocks: setup_crypto() and
\* write_tape_block() record a block as the page in force asks.
THEOREM RecordedTrue == Spec => []WrittenAsTold
<1>1. IInv => WrittenAsTold
  BY DEF IInv
<1> QED
  BY <1>1, Invariance, PTL

\* For keys of any length, with any bytes left in the arrays: the comparison of
\* valid_encryption_blk() and that of the status page accept the key of the block.
THEOREM KeysTell == Spec => []ReadAsTold
<1>1. ASSUME IInv PROVE ReadAsTold
  <2> SUFFICES ASSUME live, Encrypted
               PROVE  /\ (told.decrypt > 1 /\ pointed) =>
                           (Valid <=> /\ Item.asked.key = told.key
                                      /\ pm = "stk" => Item.asked.ukad = UkadOf(told))
                      /\ NextBlockStatus = 5 <=> Item.asked.key = told.key
    BY DEF ReadAsTold
  <2>1. pos + 1 \in 1 .. Len(tape) /\ Item = tape[pos + 1] /\ Item \in Headers
    BY <1>1 DEF IInv, TypeOK, Encrypted, AtItem, Item
  <2>2. Item.encrypted /\ Item.kind = "data"
    BY <1>1, <2>1 DEF IInv, MarksClear, Encrypted
  <2>3. Item.key = Item.asked.key /\ Item.ukad = Item.asked.ukad
    BY <1>1, <2>1, <2>2 DEF IInv, WrittenAsTold
  <2>4. Item.key \in Strings /\ Item.ukad \in Strings
    BY <2>1 DEF Headers
  <2>5. /\ key \in Arrays /\ ukad \in Arrays
        /\ decrypt = told.decrypt /\ Held(key) = told.key /\ Held(ukad) = UkadOf(told)
    BY <1>1 DEF IInv, TypeOK, SettingsTold
  <2>6. KeyMatches <=> Item.asked.key = told.key
    BY <2>3, <2>4, <2>5, SameHeld DEF KeyMatches
  <2>7. Same(Item.ukad, ukad) <=> Item.asked.ukad = UkadOf(told)
    BY <2>3, <2>4, <2>5, SameHeld
  <2>8. NextBlockStatus = 5 <=> KeyMatches
    BY DEF NextBlockStatus
  <2>9. Valid <=> decrypt > 1 /\ KeyMatches /\ (pm = "stk" => Same(Item.ukad, ukad))
    BY DEF Valid, UkadMatches
  <2> QED
    BY <2>5, <2>6, <2>7, <2>8, <2>9
<1> QED
  BY <1>1, Invariance, PTL

\* For tapes of any length: encrypted blocks that were acknowledged lie on a
\* formatted cartridge, behind a block that was written in the clear while a key
\* was in place; but for a filemark written over that block.
THEOREM LabelKept == Spec => []LabelFirst
<1>1. ASSUME IInv PROVE LabelFirst
  <2> SUFFICES ASSUME pm = "e06", NEW i \in 1 .. Len(tape), tape[i].encrypted
               PROVE  /\ i > 1
                      /\ tape[i].good =>
                           /\ formatted
                           /\ tape[1].kind = "data" =>
                                ~tape[1].encrypted /\ tape[1].asked.encrypted
    BY DEF LabelFirst
  <2>1. i > 1 /\ (tape[i].good => formatted)
    BY <1>1 DEF IInv, OnFormatted
  <2>2. 1 \in 1 .. Len(tape)
    BY <1>1 DEF IInv, TypeOK
  <2>3. ~tape[1].encrypted
    BY <1>1, <2>2 DEF IInv, OnFormatted
  <2>4. (formatted /\ tape[1].kind = "data") => tape[1].asked.encrypted
    BY <1>1, <2>2 DEF IInv, LabelKeyed
  <2> QED
    BY <2>1, <2>3, <2>4
<1> QED
  BY <1>1, Invariance, PTL
=============================================================================
