---------------------------- MODULE ChangerProofs ----------------------------
(***************************************************************************)
(* Proofs about the inventory of the library: its types, that no cartridge *)
(* is in two elements, and that none is lost behind a closed door; then    *)
(* that it agrees with the drives, as long as no answer is taken for       *)
(* another and nobody restarts.                                            *)
(***************************************************************************)
EXTENDS ChangerProps, TLAPS

\* What a MOVE MEDIUM has checked before it waits is so when it goes on: only
\* the move changes elements while it is in progress.
MoveSound ==
    /\ move.at = "src_state" =>
           move.src \in Drives /\ move.dst \in Elements /\ move.src # move.dst
    /\ move.at = "dst_state" =>
           move.src \in Elements /\ move.dst \in Drives /\ move.src # move.dst
    /\ move.at = "unload" =>
           /\ move.src \in Drives /\ move.dst \in Elements /\ move.src # move.dst
           /\ holds[move.dst] = None
    /\ move.at = "emptied" =>
           /\ move.src \in Drives /\ move.dst \in Elements /\ move.src # move.dst
           /\ holds[move.src] = None
    /\ move.at = "load" =>
           /\ move.src \in Elements /\ move.dst \in Drives /\ move.src # move.dst
           /\ move.src \in Ports => holds[move.dst] = None
           /\ move.src \in Drives => holds[move.src] = None

IInv == TypeOK /\ MoveSound

\* Storage, import/export and drive elements are different places.
LEMMA PlacesApart ==
    /\ Ports \subseteq Elements /\ Drives \subseteq Elements
    /\ Elements = Ports \cup Drives
    /\ Ports \cap Drives = {}
    /\ None \notin Elements /\ None \notin Carts
    /\ Lib \in Daemons /\ Drives \subseteq Daemons /\ Lib \notin Drives
BY ElementsDistinct DEF Ports, Elements, Daemons

\* What arrives in an inbox and what is taken from it.
LEMMA SequenceFacts ==
    ASSUME NEW S, NEW q \in Seq(S)
    PROVE  /\ \A m \in S : Append(q, m) \in Seq(S)
           /\ q # << >> => Head(q) \in S /\ Tail(q) \in Seq(S)
OBVIOUS

\* An inbox of messages stays one when a message is sent or taken.
LEMMA MailFacts ==
    ASSUME TypeOK
    PROVE  /\ \A d \in Daemons :
                 inbox[d] # << >> => Head(inbox[d]) \in Mail /\ Tail(inbox[d]) \in Seq(Mail)
           /\ \A d \in Daemons, m \in Mail : Append(inbox[d], m) \in Seq(Mail)
           /\ \A d \in Daemons, m \in Mail :
                 inbox[d] # << >> => Append(Tail(inbox[d]), m) \in Seq(Mail)
<1>1. \A d \in Daemons : inbox[d] \in Seq(Mail)
  BY DEF TypeOK
<1> QED
  BY <1>1, SequenceFacts

\* The library and the drives send messages of the known texts.
LEMMA MessagesMail ==
    /\ \A t \in Texts, c \in Carts \cup {None} : Request(t, c) \in Mail
    /\ \A d \in Drives, t \in Texts : Message(d, t, None) \in Mail
BY PlacesApart DEF Request, Message, Mail, Daemons

\* The steps between requests keep moves and inboxes well formed.
LEMMA AskTypes ==
    ASSUME TypeOK, NEW d \in Drives, NEW m \in Mail, NEW at \in Waits,
           NEW src \in Elements, NEW dst \in Elements, Ask(d, m, at, src, dst)
    PROVE  /\ inbox' \in [Daemons -> Seq(Mail)]
           /\ move' \in [at : Waits, src : Elements, dst : Elements]
           /\ move'.at = at /\ move'.src = src /\ move'.dst = dst
BY PlacesApart, MailFacts DEF Ask, Deliver, TypeOK

\* The next request keeps the addresses of the command.
LEMMA AskNextTypes ==
    ASSUME TypeOK, NEW d \in Drives, NEW m \in Mail, NEW at \in Waits,
           inbox[Lib] # << >>, AskNext(d, m, at)
    PROVE  /\ inbox' \in [Daemons -> Seq(Mail)]
           /\ move' \in [at : Waits, src : Elements \cup {None}, dst : Elements \cup {None}]
           /\ move'.at = at /\ move'.src = move.src /\ move'.dst = move.dst
<1>1. inbox' = [inbox EXCEPT ![Lib] = Tail(@), ![d] = Append(@, m)]
  BY DEF AskNext, Deliver
<1>2. inbox' \in [Daemons -> Seq(Mail)]
  BY <1>1, PlacesApart, MailFacts DEF TypeOK
<1> QED
  BY <1>2 DEF AskNext, TypeOK

\* A command that is over holds no addresses.
LEMMA ReturnTypes ==
    ASSUME TypeOK, inbox[Lib] # << >>, Return \/ Segfault
    PROVE  /\ inbox' \in [Daemons -> Seq(Mail)]
           /\ move' \in [at : {"idle", "crashed"}, src : {None}, dst : {None}]
<1>1. inbox' = [inbox EXCEPT ![Lib] = Tail(@)]
  BY DEF Return, Segfault
<1>2. inbox' \in [Daemons -> Seq(Mail)]
  BY <1>1, PlacesApart, MailFacts DEF TypeOK
<1>3. \/ move' = [at |-> "idle", src |-> None, dst |-> None]
      \/ move' = [at |-> "crashed", src |-> None, dst |-> None]
  BY DEF Return, Segfault, Idle
<1> QED
  BY <1>2, <1>3

\* Counting mistaken answers keeps the counts numbers.
LEMMA MatchedTypes ==
    ASSUME TypeOK, NEW d, NEW texts, Matched(d, texts)
    PROVE  mishaps' \in [Mishaps -> Nat]
BY DEF Matched, Another, Mishaps, TypeOK

\* move_cart() keeps the types, and empties the source.
LEMMA MoveCartTypes ==
    ASSUME TypeOK, NEW src \in Elements, NEW dst \in Elements, MoveCart(src, dst)
    PROVE  /\ holds' \in [Elements -> Carts \cup {None}]
           /\ last' \in [Drives -> Elements \cup {None}]
           /\ open' \in BOOLEAN
           /\ src # dst => holds'[src] = None
           /\ OpenToPicker(src) \in [Drives -> BOOLEAN]
<1>1. holds' \in [Elements -> Carts \cup {None}] /\ (src # dst => holds'[src] = None)
  BY DEF MoveCart, Moved, TypeOK
<1>2. last' \in [Drives -> Elements \cup {None}] /\ open' \in BOOLEAN
  BY DEF MoveCart, TypeOK
<1>3. OpenToPicker(src) \in [Drives -> BOOLEAN]
  BY DEF OpenToPicker, TypeOK
<1> QED
  BY <1>1, <1>2, <1>3

\* A cartridge that goes to an empty element is still there.
LEMMA MoveCartKeeps ==
    ASSUME TypeOK, NEW src \in Elements, NEW dst \in Elements, MoveCart(src, dst),
           src # dst, holds[dst] = None
    PROVE  Present' = Present
<1>1. \A e \in Elements : holds'[e] = IF e = src THEN None ELSE IF e = dst THEN holds[src] ELSE holds[e]
  BY DEF MoveCart, Moved, TypeOK
<1> QED
  BY <1>1 DEF Present

\* ... and in no other.
LEMMA MoveCartUnique ==
    ASSUME TypeOK, InventoryUnique, NEW src \in Elements, NEW dst \in Elements,
           MoveCart(src, dst)
    PROVE  InventoryUnique'
<1>1. \A e \in Elements : holds'[e] = IF e = src THEN None ELSE IF e = dst THEN holds[src] ELSE holds[e]
  BY DEF MoveCart, Moved, TypeOK
<1> QED
  BY <1>1 DEF InventoryUnique

\* What a step must keep: the invariant, the uniqueness of cartridges, and with
\* the door closed the cartridges themselves.
Kept ==
    /\ IInv'
    /\ InventoryUnique => InventoryUnique'
    /\ ~open /\ move'.at # "down" => Present' = Present

\* A step that moves nothing keeps cartridges unique and present.
LEMMA SameHolds ==
    ASSUME holds' = holds
    PROVE  (InventoryUnique => InventoryUnique') /\ Present' = Present
BY DEF InventoryUnique, Present

-----------------------------------------------------------------------------

\* A move between slots checks and moves in one step.
LEMMA SlotToSlotKept ==
    ASSUME IInv, NEW src \in Ports, NEW dst \in Ports, MoveSlotToSlot(src, dst)
    PROVE  Kept
<1>0. src \in Elements /\ dst \in Elements /\ src # dst
  BY PlacesApart DEF MoveSlotToSlot
<1>1. TypeOK'
  BY <1>0, MoveCartTypes DEF IInv, MoveSlotToSlot, TypeOK, drives
<1>2. MoveSound'
  BY DEF MoveSlotToSlot, Idle, MoveSound
<1> QED
  BY <1>0, <1>1, <1>2, MoveCartKeeps, MoveCartUnique DEF Kept, IInv, MoveSlotToSlot

\* A move that involves a drive begins with a question and moves nothing.
LEMMA AskKept ==
    ASSUME IInv, NEW src \in Elements, NEW dst \in Elements, src # dst,
           \/ MoveSlotToDrive(src, dst) /\ dst \in Drives
           \/ MoveFromDrive(src, dst) /\ src \in Drives
    PROVE  Kept
<1>1. Request("mount_state", None) \in Mail
  BY MessagesMail DEF Texts
<1>2. TypeOK'
  BY <1>1, AskTypes DEF IInv, MoveSlotToDrive, MoveFromDrive, TypeOK, drives, inventory, Waits
<1>3. MoveSound'
  BY DEF MoveSlotToDrive, MoveFromDrive, Ask, MoveSound
<1> QED
  BY <1>2, <1>3, SameHolds DEF Kept, IInv, MoveSlotToDrive, MoveFromDrive, inventory

\* A command that returns, or crashes, with the inventory as it was.
LEMMA ReturnKept ==
    ASSUME IInv, inbox[Lib] # << >>, Return \/ Segfault, UNCHANGED inventory, UNCHANGED drives,
           mishaps' \in [Mishaps -> Nat]
    PROVE  Kept
<1>1. TypeOK'
  BY ReturnTypes DEF IInv, TypeOK, inventory, drives
<1>2. MoveSound'
  BY ReturnTypes DEF IInv, MoveSound
<1> QED
  BY <1>1, <1>2, SameHolds DEF Kept, IInv, inventory

\* The next request of a command, with the inventory as it was.
LEMMA NextKept ==
    ASSUME IInv, inbox[Lib] # << >>, NEW d \in Drives, NEW m \in Mail, NEW at \in Waits,
           AskNext(d, m, at), UNCHANGED inventory, UNCHANGED drives,
           mishaps' \in [Mishaps -> Nat], MoveSound'
    PROVE  Kept
<1>1. TypeOK'
  BY AskNextTypes DEF IInv, TypeOK, inventory, drives, Waits
<1> QED
  BY <1>1, SameHolds DEF Kept, IInv, inventory

\* The next request of a command that has moved the cartridge.
LEMMA MovedKept ==
    ASSUME IInv, inbox[Lib] # << >>, NEW d \in Drives, NEW m \in Mail, NEW at \in Waits,
           AskNext(d, m, at), UNCHANGED drives, mishaps' \in [Mishaps -> Nat],
           NEW src \in Elements, NEW dst \in Elements, src # dst, holds[dst] = None,
           MoveCart(src, dst), access' = OpenToPicker(src), MoveSound'
    PROVE  Kept
<1>1. TypeOK'
  BY AskNextTypes, MoveCartTypes DEF IInv, TypeOK, drives, Waits
<1> QED
  BY <1>1, MoveCartKeeps, MoveCartUnique DEF Kept, IInv

\* The answer about the source drive: the destination port is checked here.
LEMMA SourceKnownKept == IInv /\ SourceKnown => Kept
<1> SUFFICES ASSUME IInv, SourceKnown PROVE Kept
  OBVIOUS
<1> DEFINE src == move.src
           dst == move.dst
<1>1. /\ move.at = "src_state" /\ inbox[Lib] # << >> /\ UNCHANGED drives
      /\ src \in Drives /\ src \in Elements /\ dst \in Elements /\ src # dst
      /\ mishaps' \in [Mishaps -> Nat]
  BY MatchedTypes, PlacesApart DEF SourceKnown, Waiting, IInv, MoveSound
<1>2. CASE (Return \/ Segfault) /\ UNCHANGED inventory
  BY <1>1, <1>2, ReturnKept
<1>3. CASE dst \in Drives /\ AskNext(dst, Request("mount_state", None), "dst_state") /\ UNCHANGED inventory
  <2>1. MoveSound'
    BY <1>1, <1>3, AskNextTypes DEF MoveSound, AskNext, IInv, TypeOK, inventory
  <2> QED
    BY <1>1, <1>3, <2>1, NextKept, MessagesMail DEF Waits, Texts
<1>4. CASE /\ holds[dst] = None /\ MoveCart(src, dst) /\ access' = OpenToPicker(src)
           /\ AskNext(src, Request("set_empty", None), "emptied")
  <2>1. MoveSound'
    BY <1>1, <1>4, MoveCartTypes DEF MoveSound, AskNext, IInv, TypeOK
  <2> QED
    BY <1>1, <1>4, <2>1, MovedKept, MessagesMail DEF Waits, Texts
<1>5. CASE holds[dst] = None /\ AskNext(src, Request("unload", holds[src]), "unload") /\ UNCHANGED inventory
  <2>1. MoveSound'
    BY <1>1, <1>5 DEF MoveSound, AskNext, IInv, TypeOK, inventory
  <2>2. Request("unload", holds[src]) \in Mail
    BY <1>1, MessagesMail DEF IInv, TypeOK, Texts
  <2> QED
    BY <1>1, <1>5, <2>1, <2>2, NextKept DEF Waits
<1> QED
  BY <1>2, <1>3, <1>4, <1>5 DEF SourceKnown

\* The answer about the destination drive: it is empty when the move goes on.
LEMMA DestinationKnownKept == IInv /\ DestinationKnown => Kept
<1> SUFFICES ASSUME IInv, DestinationKnown PROVE Kept
  OBVIOUS
<1> DEFINE src == move.src
           dst == move.dst
<1>1. /\ move.at = "dst_state" /\ inbox[Lib] # << >> /\ UNCHANGED drives /\ UNCHANGED inventory
      /\ src \in Elements /\ dst \in Drives /\ dst \in Elements /\ src # dst
      /\ mishaps' \in [Mishaps -> Nat]
  BY MatchedTypes, PlacesApart DEF DestinationKnown, Waiting, IInv, MoveSound
<1>2. CASE Return \/ Segfault
  BY <1>1, <1>2, ReturnKept
<1>3. CASE holds[dst] = None /\ src \in Ports /\ AskNext(dst, Request("lload", holds[src]), "load")
  <2>1. MoveSound'
    BY <1>1, <1>3, PlacesApart DEF MoveSound, AskNext, IInv, TypeOK, inventory
  <2>2. Request("lload", holds[src]) \in Mail
    BY <1>1, MessagesMail DEF IInv, TypeOK, Texts
  <2> QED
    BY <1>1, <1>3, <2>1, <2>2, NextKept DEF Waits
<1>4. CASE holds[dst] = None /\ src \in Drives /\ AskNext(src, Request("unload", holds[src]), "unload")
  <2>1. MoveSound'
    BY <1>1, <1>4 DEF MoveSound, AskNext, IInv, TypeOK, inventory
  <2>2. Request("unload", holds[src]) \in Mail
    BY <1>1, MessagesMail DEF IInv, TypeOK, Texts
  <2> QED
    BY <1>1, <1>4, <2>1, <2>2, NextKept DEF Waits
<1> QED
  BY <1>2, <1>3, <1>4 DEF DestinationKnown, DriveOccupied

\* The cartridge leaves the drive for a destination found empty before.
LEMMA SourceUnloadedKept == IInv /\ SourceUnloaded => Kept
<1> SUFFICES ASSUME IInv, SourceUnloaded PROVE Kept
  OBVIOUS
<1> DEFINE src == move.src
           dst == move.dst
<1>1. /\ move.at = "unload" /\ inbox[Lib] # << >> /\ UNCHANGED drives
      /\ src \in Drives /\ src \in Elements /\ dst \in Elements /\ src # dst
      /\ holds[dst] = None
      /\ mishaps' \in [Mishaps -> Nat]
  BY MatchedTypes, PlacesApart DEF SourceUnloaded, Waiting, IInv, MoveSound
<1>2. CASE Return /\ UNCHANGED inventory
  BY <1>1, <1>2, ReturnKept
<1>3. CASE /\ MoveCart(src, dst) /\ access' = OpenToPicker(src)
           /\ AskNext(src, Request("set_empty", None), "emptied")
  <2>1. MoveSound'
    BY <1>1, <1>3, MoveCartTypes DEF MoveSound, AskNext, IInv, TypeOK
  <2> QED
    BY <1>1, <1>3, <2>1, MovedKept, MessagesMail DEF Waits, Texts
<1> QED
  BY <1>2, <1>3 DEF SourceUnloaded

\* The source drive stays empty until the destination has the cartridge.
LEMMA SourceEmptiedKept == IInv /\ SourceEmptied => Kept
<1> SUFFICES ASSUME IInv, SourceEmptied PROVE Kept
  OBVIOUS
<1> DEFINE src == move.src
           dst == move.dst
<1>1. /\ move.at = "emptied" /\ inbox[Lib] # << >> /\ UNCHANGED drives /\ UNCHANGED inventory
      /\ src \in Drives /\ src \in Elements /\ dst \in Elements /\ src # dst
      /\ holds[src] = None
      /\ mishaps' \in [Mishaps -> Nat]
  BY MatchedTypes, PlacesApart DEF SourceEmptied, Waiting, IInv, MoveSound
<1>2. CASE Return
  BY <1>1, <1>2, ReturnKept
<1>3. CASE dst \in Drives /\ AskNext(dst, Request("lload", holds[dst]), "load")
  <2>1. MoveSound'
    BY <1>1, <1>3, PlacesApart DEF MoveSound, AskNext, IInv, TypeOK, inventory
  <2>2. Request("lload", holds[dst]) \in Mail
    BY <1>1, MessagesMail DEF IInv, TypeOK, Texts
  <2> QED
    BY <1>1, <1>3, <2>1, <2>2, NextKept DEF Waits
<1> QED
  BY <1>2, <1>3 DEF SourceEmptied

\* The cartridge arrives, or goes back to a drive that is still empty.
LEMMA DestinationLoadedKept == IInv /\ DestinationLoaded => Kept
<1> SUFFICES ASSUME IInv, DestinationLoaded PROVE Kept
  OBVIOUS
<1> DEFINE src == move.src
           dst == move.dst
<1>1. /\ move.at = "load" /\ inbox[Lib] # << >> /\ UNCHANGED drives
      /\ src \in Elements /\ dst \in Drives /\ dst \in Elements /\ src # dst
      /\ src \in Ports => holds[dst] = None
      /\ src \in Drives => holds[src] = None
      /\ mishaps' \in [Mishaps -> Nat]
  BY MatchedTypes, PlacesApart DEF DestinationLoaded, Waiting, IInv, MoveSound
<1>2. CASE Return /\ UNCHANGED inventory
  BY <1>1, <1>2, ReturnKept
<1>3. CASE /\ IF src \in Ports THEN MoveCart(src, dst) ELSE UNCHANGED <<holds, last, open>>
           /\ access' = [access EXCEPT ![dst] = FALSE]
           /\ Return
  <2>1. TypeOK'
    BY <1>1, <1>3, MoveCartTypes, ReturnTypes DEF IInv, TypeOK, drives
  <2>2. MoveSound'
    BY <1>1, <1>3, ReturnTypes DEF IInv, MoveSound
  <2>3. CASE src \in Ports
    BY <1>1, <1>3, <2>1, <2>2, <2>3, MoveCartKeeps, MoveCartUnique DEF Kept, IInv
  <2>4. CASE src \notin Ports
    BY <1>3, <2>1, <2>2, <2>4, SameHolds DEF Kept, IInv
  <2> QED
    BY <2>3, <2>4
<1>4. CASE src \in Drives /\ PutBack(src, dst)
  <2>1. /\ MoveCart(dst, src) /\ access' = OpenToPicker(dst)
        /\ AskNext(src, Request("lload", holds[dst]), "restore")
    BY <1>4 DEF PutBack
  <2>2. MoveSound'
    BY <2>1, <1>1 DEF MoveSound, AskNext, IInv, TypeOK
  <2>3. Request("lload", holds[dst]) \in Mail
    BY <1>1, MessagesMail DEF IInv, TypeOK, Texts
  <2> QED
    BY <1>1, <1>4, <2>1, <2>2, <2>3, MovedKept DEF Waits
<1> QED
  BY <1>2, <1>3, <1>4 DEF DestinationLoaded

\* Nothing moves when the cartridge is back in its drive.
LEMMA SourceRestoredKept == IInv /\ SourceRestored => Kept
BY MatchedTypes, ReturnKept DEF SourceRestored, Waiting, IInv

-----------------------------------------------------------------------------

\* The door moves no cartridge.
LEMMA OpenCloseKept == IInv /\ OpenClose => Kept
<1> SUFFICES ASSUME IInv, OpenClose PROVE Kept
  OBVIOUS
<1>1. TypeOK'
  BY DEF IInv, OpenClose, TypeOK, drives
<1>2. MoveSound'
  BY DEF OpenClose, Idle, MoveSound
<1> QED
  BY <1>1, <1>2, SameHolds DEF Kept, IInv, OpenClose

\* The messages that change the import/export elements need an open door.
LEMMA MessageTakenKept == IInv /\ MessageTaken => Kept
<1> SUFFICES ASSUME IInv, MessageTaken PROVE Kept
  OBVIOUS
<1>1. /\ move = Idle /\ move' = Idle /\ UNCHANGED drives /\ UNCHANGED mishaps
      /\ inbox' \in [Daemons -> Seq(Mail)] /\ Answer \in Mail
  BY PlacesApart, MailFacts DEF MessageTaken, Answer, IInv, TypeOK
<1>2. MoveSound'
  BY <1>1 DEF MoveSound, Idle
<1>3. CASE EjectSeen \/ OpenMap \/ CloseMap \/ Dropped
  <2>1. holds' = holds /\ last' = last /\ open' \in BOOLEAN /\ access' \in [Drives -> BOOLEAN]
    BY <1>3 DEF EjectSeen, OpenMap, CloseMap, Dropped, inventory, IInv, TypeOK
  <2>2. TypeOK'
    BY <1>1, <2>1 DEF IInv, TypeOK, drives
  <2> QED
    BY <1>2, <2>1, <2>2, SameHolds DEF Kept, IInv
<1>4. CASE EmptyMap
  <2>1. holds' \in [Elements -> Carts \cup {None}] /\ open
    BY <1>4 DEF EmptyMap, IInv, TypeOK
  <2>2. TypeOK'
    BY <1>1, <1>4, <2>1 DEF EmptyMap, IInv, TypeOK, drives
  <2>3. InventoryUnique => InventoryUnique'
    BY <1>4 DEF EmptyMap, InventoryUnique
  <2> QED
    BY <1>2, <2>1, <2>2, <2>3 DEF Kept, IInv
<1>5. CASE LoadMap
  <2>1. PICK e \in FreeMaps : holds' = [holds EXCEPT ![e] = Answer.cart]
    BY <1>5 DEF LoadMap
  <2>2. e \in Elements /\ Answer.cart \in Carts \cup {None}
    BY <1>1, PlacesApart DEF FreeMaps, Ports, Mail
  <2>3. holds' \in [Elements -> Carts \cup {None}]
    BY <2>1, <2>2 DEF IInv, TypeOK
  <2>4. TypeOK'
    BY <1>1, <1>5, <2>3 DEF LoadMap, IInv, TypeOK, drives
  <2>5. InventoryUnique => InventoryUnique'
    BY <1>5, <2>1, <2>2 DEF LoadMap, NotInSlot, InventoryUnique, IInv, TypeOK
  <2> QED
    BY <1>2, <1>5, <2>4, <2>5 DEF LoadMap, Kept, IInv
<1> QED
  BY <1>3, <1>4, <1>5 DEF MessageTaken

\* vtlcmd sends texts, which move nothing until they are read.
LEMMA OperatorSendsKept == IInv /\ OperatorSends => Kept
<1> SUFFICES ASSUME IInv, OperatorSends PROVE Kept
  OBVIOUS
<1>1. PICK m \in OperatorMessages : inbox' = [inbox EXCEPT ![Lib] = Deliver(@, m)]
  BY DEF OperatorSends
<1>2. m \in Mail
  BY TextsKnown DEF OperatorMessages, OperatorTexts, Texts, Mail
<1>3. inbox' \in [Daemons -> Seq(Mail)]
  BY <1>1, <1>2, PlacesApart, MailFacts DEF Deliver, IInv, TypeOK
<1>4. TypeOK'
  BY <1>3 DEF OperatorSends, IInv, TypeOK, inventory, drives
<1>5. MoveSound'
  BY DEF OperatorSends, IInv, MoveSound, inventory
<1> QED
  BY <1>4, <1>5, SameHolds DEF Kept, IInv, OperatorSends, inventory

-----------------------------------------------------------------------------

\* A drive answers, or drops, its oldest message.
LEMMA HandledTypes ==
    ASSUME TypeOK, NEW d \in Drives, inbox[d] # << >>, NEW text \in Texts,
           Reply(d, text) \/ inbox' = [inbox EXCEPT ![d] = Tail(@)]
    PROVE  inbox' \in [Daemons -> Seq(Mail)]
<1>1. Message(d, text, None) \in Mail
  BY MessagesMail
<1>2. CASE inbox' = [inbox EXCEPT ![d] = Tail(@)]
  BY <1>2, PlacesApart, MailFacts DEF TypeOK
<1>3. CASE inbox' = [inbox EXCEPT ![d] = Tail(@), ![Lib] = Append(@, Message(d, text, None))]
  BY <1>1, <1>3, PlacesApart, MailFacts DEF TypeOK
<1> QED
  BY <1>2, <1>3 DEF Reply, Deliver

\* No message a drive handles changes the inventory.
LEMMA DriveHandlesKept ==
    ASSUME IInv, NEW d \in Drives, DriveHandles(d)
    PROVE  Kept
<1> DEFINE m == Head(inbox[d])
<1>1. /\ inbox[d] # << >> /\ m \in Mail
      /\ UNCHANGED inventory /\ UNCHANGED move /\ UNCHANGED mishaps
      /\ LibraryLoad(d, m) \/ LibraryUnload(d, m) \/ MountState(d, m) \/ Register(d, m)
  BY PlacesApart, MailFacts DEF DriveHandles, IInv
<1> HIDE DEF m
<1>2. inbox' \in [Daemons -> Seq(Mail)]
  <2>1. TypeOK /\ "Loaded OK" \in Texts /\ "Load failed" \in Texts /\ "Unloaded OK" \in Texts
        /\ "Not occupied" \in Texts /\ "occupied" \in Texts
    BY DEF IInv, Texts
  <2>2. CASE LibraryLoad(d, m)
    BY <1>1, <2>1, <2>2, HandledTypes DEF LibraryLoad, LoadRefused
  <2>3. CASE LibraryUnload(d, m)
    BY <1>1, <2>1, <2>3, HandledTypes DEF LibraryUnload
  <2>4. CASE MountState(d, m)
    BY <1>1, <2>1, <2>4, HandledTypes DEF MountState
  <2>5. CASE Register(d, m)
    BY <1>1, <2>1, <2>5, HandledTypes DEF Register
  <2> QED
    BY <1>1, <2>2, <2>3, <2>4, <2>5
<1>3. /\ barcode' \in [Drives -> Carts \cup {None}] /\ mounted' \in [Drives -> BOOLEAN]
      /\ inLibrary' \in [Drives -> BOOLEAN]
  BY <1>1 DEF LibraryLoad, LibraryUnload, MountState, Register, MouthCleared, Mail, drives,
     IInv, TypeOK
<1>4. TypeOK'
  BY <1>1, <1>2, <1>3 DEF IInv, TypeOK, inventory
<1>5. MoveSound'
  BY <1>1 DEF IInv, MoveSound, inventory
<1> QED
  BY <1>1, <1>4, <1>5, SameHolds DEF Kept, IInv, inventory

\* Nor does an UNLOAD by the host.
LEMMA HostUnloadsKept ==
    ASSUME IInv, NEW d \in Drives, HostUnloads(d)
    PROVE  Kept
<1>1. inbox' \in [Daemons -> Seq(Mail)]
  BY PlacesApart, MailFacts, MessagesMail DEF HostUnloads, EjectSent, Deliver, Texts, IInv, TypeOK
<1>2. TypeOK'
  BY <1>1 DEF HostUnloads, IInv, TypeOK, inventory
<1>3. MoveSound'
  BY DEF HostUnloads, IInv, MoveSound, inventory
<1> QED
  BY <1>2, <1>3, SameHolds DEF Kept, IInv, HostUnloads, inventory

\* Nor does the restart of a drive.
LEMMA DriveRestartsKept ==
    ASSUME IInv, NEW d \in Drives, DriveRestarts(d)
    PROVE  Kept
<1>1. TypeOK'
  BY DEF DriveRestarts, MouthCleared, Another, Mishaps, IInv, TypeOK, inventory
<1>2. MoveSound'
  BY DEF DriveRestarts, IInv, MoveSound, inventory
<1> QED
  BY <1>1, <1>2, SameHolds DEF Kept, IInv, DriveRestarts, inventory

\* save_config() puts the cartridges of different drives into different slots
\* that were empty.
LEMMA LibraryExitsKept == IInv /\ LibraryExits => Kept
<1> SUFFICES ASSUME IInv, LibraryExits PROVE Kept
  OBVIOUS
<1>1. PICK to \in Stowings :
          holds' = [e \in Elements |->
                        IF e \in Drives THEN None
                        ELSE IF \E d \in FullDrives : to[d] = e
                        THEN holds[CHOOSE d \in FullDrives : to[d] = e]
                        ELSE holds[e]]
  BY DEF LibraryExits
<1> DEFINE by(e) == CHOOSE d \in FullDrives : to[d] = e
<1>2. \A e \in Elements : (\E d \in FullDrives : to[d] = e) =>
          /\ by(e) \in FullDrives /\ to[by(e)] = e /\ by(e) \in Elements
          /\ e \in EmptySlots
  BY PlacesApart DEF FullDrives, Stowings
<1> HIDE DEF by
<1>3. \A e \in Elements :
          holds'[e] = IF e \in Drives THEN None
                      ELSE IF \E d \in FullDrives : to[d] = e THEN holds[by(e)]
                      ELSE holds[e]
  BY <1>1 DEF by
<1>4. holds' \in [Elements -> Carts \cup {None}]
  <2>1. \A e \in Elements : holds'[e] \in Carts \cup {None}
    BY <1>2, <1>3 DEF IInv, TypeOK
  <2> QED
    BY <1>1, <2>1
<1>5. TypeOK'
  <2>1. last' \in [Drives -> Elements \cup {None}] /\ access' \in [Drives -> BOOLEAN]
    BY DEF LibraryExits
  <2>2. mishaps' \in [Mishaps -> Nat]
    BY DEF LibraryExits, Another, Mishaps, IInv, TypeOK
  <2>3. move' = [at |-> "down", src |-> None, dst |-> None] /\ open' = FALSE
    BY DEF LibraryExits, Idle
  <2>4. UNCHANGED <<inbox, barcode, mounted, inLibrary>>
    BY DEF LibraryExits, drives
  <2> QED
    BY <1>4, <2>1, <2>2, <2>3, <2>4 DEF IInv, TypeOK
<1>6. MoveSound' /\ move'.at = "down"
  BY DEF LibraryExits, Idle, MoveSound
<1>7. InventoryUnique => InventoryUnique'
  <2> SUFFICES ASSUME InventoryUnique, NEW e \in Elements, NEW f \in Elements,
                      holds'[e] = holds'[f], holds'[e] # None
               PROVE  e = f
    BY DEF InventoryUnique
  <2>1. e \notin Drives /\ f \notin Drives
    BY <1>3
  <2>2. CASE (\E d \in FullDrives : to[d] = e) /\ (\E d \in FullDrives : to[d] = f)
    BY <1>2, <1>3, <2>1, <2>2 DEF InventoryUnique
  <2>3. CASE (\E d \in FullDrives : to[d] = e) /\ ~(\E d \in FullDrives : to[d] = f)
    BY <1>2, <1>3, <2>1, <2>3 DEF InventoryUnique, FullDrives
  <2>4. CASE ~(\E d \in FullDrives : to[d] = e) /\ (\E d \in FullDrives : to[d] = f)
    BY <1>2, <1>3, <2>1, <2>4 DEF InventoryUnique, FullDrives
  <2>5. CASE ~(\E d \in FullDrives : to[d] = e) /\ ~(\E d \in FullDrives : to[d] = f)
    BY <1>3, <2>1, <2>5 DEF InventoryUnique
  <2> QED
    BY <2>2, <2>3, <2>4, <2>5
<1> QED
  BY <1>5, <1>6, <1>7 DEF Kept, IInv

\* The library starts from the inventory it saved.
LEMMA LibraryStartsKept == IInv /\ LibraryStarts => Kept
<1> SUFFICES ASSUME IInv, LibraryStarts PROVE Kept
  OBVIOUS
<1>1. Request("Register", None) \in Mail
  BY MessagesMail DEF Texts
<1>2. inbox' \in [Daemons -> Seq(Mail)]
  <2>1. \A i \in Daemons : Append(inbox[i], Request("Register", None)) \in Seq(Mail)
    BY <1>1, MailFacts DEF IInv
  <2> QED
    BY <2>1 DEF LibraryStarts, Deliver
<1>3. TypeOK'
  BY <1>2 DEF LibraryStarts, Idle, IInv, TypeOK, inventory, drives
<1>4. MoveSound'
  BY DEF LibraryStarts, Idle, MoveSound
<1> QED
  BY <1>3, <1>4, SameHolds DEF Kept, IInv, LibraryStarts, inventory

-----------------------------------------------------------------------------

\* The configured inventory has each cartridge once.
LEMMA InitHolds == Init => IInv /\ InventoryUnique
<1> SUFFICES ASSUME Init PROVE IInv /\ InventoryUnique
  OBVIOUS
<1>1. holds \in [Elements -> Carts \cup {None}]
  BY HomeUnique, PlacesApart DEF Init
<1>2. inbox \in [Daemons -> Seq(Mail)]
  <2>1. Request("Register", None) \in Mail
    BY MessagesMail DEF Texts
  <2> QED
    BY <2>1 DEF Init
<1>3. TypeOK
  BY <1>1, <1>2 DEF Init, TypeOK, Idle
<1>4. MoveSound
  BY DEF Init, Idle, MoveSound
<1>5. InventoryUnique
  BY HomeUnique, PlacesApart DEF Init, InventoryUnique
<1> QED
  BY <1>3, <1>4, <1>5 DEF IInv

\* Every step keeps what must be kept.
LEMMA StepKept == IInv /\ Next => Kept
<1> SUFFICES ASSUME IInv, Next PROVE Kept
  OBVIOUS
<1>1. CASE MoveStarts
  <2>1. CASE \E src, dst \in Ports : MoveSlotToSlot(src, dst)
    BY <2>1, SlotToSlotKept
  <2>2. CASE \E src \in Ports, dst \in Drives : MoveSlotToDrive(src, dst)
    <3>1. PICK src \in Ports, dst \in Drives : MoveSlotToDrive(src, dst)
      BY <2>2
    <3>2. src \in Elements /\ dst \in Elements /\ src # dst
      BY PlacesApart
    <3>3. MoveSlotToDrive(src, dst) /\ dst \in Drives
      BY <3>1
    <3> QED
      BY <3>2, <3>3, AskKept
  <2>3. CASE \E src \in Drives, dst \in Elements : MoveFromDrive(src, dst)
    <3>1. PICK src \in Drives, dst \in Elements : MoveFromDrive(src, dst)
      BY <2>3
    <3>2. src \in Elements /\ src # dst
      BY <3>1, PlacesApart DEF MoveFromDrive
    <3>3. MoveFromDrive(src, dst) /\ src \in Drives
      BY <3>1
    <3> QED
      BY <3>2, <3>3, AskKept
  <2> QED
    BY <1>1, <2>1, <2>2, <2>3 DEF MoveStarts
<1>2. CASE AnswerTaken
  BY <1>2, SourceKnownKept, DestinationKnownKept, SourceUnloadedKept, SourceEmptiedKept,
     DestinationLoadedKept, SourceRestoredKept DEF AnswerTaken
<1>3. CASE OpenClose \/ MessageTaken \/ OperatorSends \/ LibraryExits \/ LibraryStarts
  BY <1>3, OpenCloseKept, MessageTakenKept, OperatorSendsKept, LibraryExitsKept,
     LibraryStartsKept
<1>4. CASE \E d \in Drives : DriveHandles(d) \/ HostUnloads(d) \/ DriveRestarts(d)
  BY <1>4, DriveHandlesKept, HostUnloadsKept, DriveRestartsKept
<1> QED
  BY <1>1, <1>2, <1>3, <1>4 DEF Next

\* The inductive invariant, with the uniqueness of cartridges beside it.
THEOREM Invariance == Spec => [](IInv /\ InventoryUnique)
<1>1. IInv /\ InventoryUnique /\ [Next]_vars => (IInv /\ InventoryUnique)'
  <2>1. CASE Next
    BY <2>1, StepKept DEF Kept
  <2>2. CASE UNCHANGED vars
    BY <2>2 DEF vars, IInv, TypeOK, MoveSound, InventoryUnique
  <2> QED
    BY <2>1, <2>2
<1> QED
  BY InitHolds, <1>1, PTL DEF Spec

\* The types of the library's and the drives' state: no message makes the library
\* compute with an element that is none.
THEOREM TypeCorrect == Spec => []TypeOK
BY Invariance, PTL DEF IInv

\* No cartridge is in two elements, whatever answers are mistaken, loads fail and
\* daemons restart.
THEOREM UniqueAlways == Spec => []InventoryUnique
BY Invariance, PTL

\* With the import/export door closed no step loses a cartridge or brings one in,
\* but for the exit of the library.
THEOREM ClosedDoorKeeps == Spec => NothingLost
<1>1. IInv /\ [Next]_vars => [~open /\ move'.at # "down" => Present' = Present]_vars
  BY StepKept DEF Kept
<1> QED
  BY Invariance, <1>1, PTL DEF Spec, NothingLost

-----------------------------------------------------------------------------
(* While nothing unforeseen has happened *)

\* The drive the library has asked, and what it asked.
AskedDrive == IF move.at \in {"dst_state", "load"} THEN move.dst ELSE move.src

Carried == IF move.at = "load" /\ move.src \in Drives THEN holds[move.dst]
                                                       ELSE holds[move.src]

Asked == CASE move.at \in {"src_state", "dst_state"} -> Request("mount_state", None)
           [] move.at = "unload"                     -> Request("unload", Carried)
           [] move.at = "emptied"                    -> Request("set_empty", None)
           [] OTHER                                  -> Request("lload", Carried)

Registration == Request("Register", None)
AnswerTexts  == States \cup {"Loaded OK", "Load failed", "Unloaded OK"}

\* The messages of a queue, and that at most one of them is of a kind.
In(q)         == {q[i] : i \in 1 .. Len(q)}
Single(q, Z)  == \A i, j \in 1 .. Len(q) : q[i] \in Z /\ q[j] \in Z => i = j

Answers == {m \in Mail : m.text \in AnswerTexts}

EjectComing(d) == \E m \in In(inbox[Lib]) : m.from = d /\ m.text = "eject"

\* What is so until the drive reads the request, and once it has answered.
Before == /\ move.at = "load" => barcode[move.dst] = None
          /\ move.at = "restore" => barcode[move.src] = None

After(text) ==
    /\ move.at \in {"src_state", "dst_state"} =>
          (text = "Not occupied" <=> barcode[AskedDrive] = None)
    /\ move.at \in {"unload", "emptied"} => barcode[move.src] = None
    /\ move.at = "load" =>
          IF text = "Loaded OK"
          THEN /\ barcode[move.dst] = Carried
               /\ mounted[move.dst] \/ EjectComing(move.dst)
          ELSE barcode[move.dst] = None
    /\ move.at = "restore" => barcode[move.src] = Carried

\* One request at a time is on its way, behind the registration, or one answer.
Boxes ==
    \A d \in Drives :
        /\ Single(inbox[d], Mail \ {Registration})
        /\ \A m \in In(inbox[d]) :
              \/ m = Registration
              \/ /\ Busy /\ d = AskedDrive /\ m = Asked /\ Before
                 /\ In(inbox[Lib]) \cap Answers = {}
        /\ ~inLibrary[d] => inbox[d] # << >> /\ Head(inbox[d]) = Registration

LibraryBox ==
    /\ Single(inbox[Lib], Answers)
    /\ \A m \in In(inbox[Lib]) \cap Answers : Busy /\ After(m.text)

\* Where the cartridge is in each step of a move.
Same(d) == barcode[d] = holds[d]

MoveTrue ==
    LET src == move.src
        dst == move.dst
    IN  /\ move.at \notin {"down", "crashed"}
        /\ \A d \in Drives : Same(d) \/ (Busy /\ d \in {src, dst})
        /\ move.at = "src_state" => Same(src) /\ (dst \in Drives => Same(dst))
        /\ move.at = "dst_state" =>
              Same(dst) /\ (src \in Drives => Same(src)) /\ holds[src] # None
        /\ move.at = "unload" =>
              /\ holds[src] # None /\ barcode[src] \in {None, holds[src]}
              /\ dst \in Drives => Same(dst)
        /\ move.at = "emptied" =>
              /\ holds[dst] # None
              /\ dst \in Ports => barcode[src] \in {None, holds[dst]}
              /\ dst \in Drives => barcode[src] = None /\ barcode[dst] = None
        /\ move.at = "load" =>
              /\ Carried # None /\ barcode[dst] \in {None, Carried}
              /\ src \in Drives => barcode[src] = None
        /\ move.at = "restore" =>
              /\ dst \in Drives /\ src \in Drives /\ src # dst
              /\ holds[src] # None /\ barcode[src] \in {None, holds[src]}
              /\ holds[dst] = None /\ barcode[dst] = None

\* A drive that gave a cartridge up for another drive takes it back.
Fits ==
    /\ \A d \in Drives : barcode[d] # None => <<d, barcode[d]>> \notin Unloadable
    /\ (move.at \in {"unload", "restore"} /\ move.dst \in Drives) \/
       (move.at \in {"emptied", "load"} /\ move.dst \in Drives /\ move.src \in Drives) =>
          <<move.src, IF move.at \in {"emptied", "load"} THEN holds[move.dst]
                      ELSE holds[move.src]>> \notin Unloadable

Loaded == \A d \in Drives : mounted[d] => barcode[d] # None /\ inLibrary[d]

\* The picker is kept from a cartridge only while it is needed.
Access ==
    /\ \A d \in Drives : ~access[d] =>
          /\ holds[d] # None
          /\ mounted[d] \/ EjectComing(d) \/ (move.at = "unload" /\ d = move.src)
    /\ move.at \in {"emptied", "load", "restore"} =>
          \A d \in Drives : d \in {move.src, move.dst} => access[d]

Agree == MoveTrue /\ Boxes /\ LibraryBox /\ Fits /\ Loaded /\ Access

-----------------------------------------------------------------------------
(* Queues *)

\* What a queue holds when a message is sent, and whether one of a kind stays alone.
LEMMA QueueAppend ==
    ASSUME NEW S, NEW q \in Seq(S), NEW m \in S, NEW Z
    PROVE  /\ Append(q, m) \in Seq(S) /\ Append(q, m) # << >>
           /\ In(Append(q, m)) = In(q) \cup {m}
           /\ q # << >> => Head(Append(q, m)) = Head(q)
           /\ Single(q, Z) /\ (m \notin Z \/ In(q) \cap Z = {}) => Single(Append(q, m), Z)
<1> DEFINE r == Append(q, m)
           n == Len(q)
<1>1. /\ r \in Seq(S) /\ Len(r) = n + 1 /\ n \in Nat /\ r[n + 1] = m
      /\ \A i \in 1 .. n : r[i] = q[i]
  BY SMT
<1>2. \A i \in 1 .. n + 1 : i \in 1 .. n \/ i = n + 1
  BY <1>1, SMT
<1>3. \A i \in 1 .. n : i \in 1 .. n + 1
  BY <1>1, SMT
<1>4. n + 1 \in 1 .. n + 1
  BY <1>1, SMT
<1>5. r # << >> /\ (q # << >> => Head(r) = Head(q))
  <2>1. n + 1 # 0
    BY <1>1, SMT
  <2>2. r # << >>
    BY <1>1, <2>1, SMT
  <2>3. q # << >> => Head(q) = q[1] /\ 1 \in 1 .. n
    BY <1>1, SMT
  <2>4. Head(r) = r[1]
    BY <1>1, <2>2, SMT
  <2> QED
    BY <1>1, <2>2, <2>3, <2>4
<1> HIDE DEF r, n
<1>6. In(r) = In(q) \cup {m}
  BY <1>1, <1>2, <1>3, <1>4 DEF In, n
<1>7. Single(q, Z) /\ (m \notin Z \/ In(q) \cap Z = {}) => Single(r, Z)
  BY <1>1, <1>2, <1>3, <1>4 DEF In, Single, n
<1> QED
  BY <1>1, <1>5, <1>6, <1>7 DEF r

\* What it holds when its oldest message is taken.
LEMMA QueueTail ==
    ASSUME NEW S, NEW q \in Seq(S), q # << >>, NEW Z
    PROVE  /\ Tail(q) \in Seq(S) /\ Head(q) \in In(q)
           /\ In(Tail(q)) \subseteq In(q) /\ In(q) \subseteq In(Tail(q)) \cup {Head(q)}
           /\ Single(q, Z) => Single(Tail(q), Z)
           /\ Single(q, Z) /\ Head(q) \in Z => In(Tail(q)) \cap Z = {}
<1> DEFINE r == Tail(q)
           n == Len(r)
<1>1. /\ r \in Seq(S) /\ Len(q) = n + 1 /\ n \in Nat /\ Head(q) = q[1]
      /\ \A i \in 1 .. n : r[i] = q[i + 1]
  BY SMT
<1>2. \A i \in 1 .. n + 1 : i = 1 \/ \E j \in 1 .. n : i = j + 1
  <2> HIDE DEF n
  <2>1. ASSUME NEW i \in 1 .. n + 1, i # 1
        PROVE  i - 1 \in 1 .. n /\ i = (i - 1) + 1
    BY <1>1, <2>1, SMT
  <2> QED
    BY <2>1
<1>3. \A i \in 1 .. n : i + 1 \in 1 .. n + 1 /\ i + 1 # 1
  BY <1>1, SMT
<1>4. 1 \in 1 .. n + 1
  BY <1>1, SMT
<1>5. \A i, j \in 1 .. n : i + 1 = j + 1 => i = j
  BY <1>1, SMT
<1> HIDE DEF r, n
<1>6. Head(q) \in In(q) /\ In(r) \subseteq In(q) /\ In(q) \subseteq In(r) \cup {Head(q)}
  BY <1>1, <1>2, <1>3, <1>4, SMTT(30) DEF In, n
<1>7. Single(q, Z) => Single(r, Z)
  BY <1>1, <1>3, <1>5 DEF Single, n
<1>8. Single(q, Z) /\ Head(q) \in Z => In(r) \cap Z = {}
  BY <1>1, <1>3, <1>4 DEF Single, In, n
<1> QED
  BY <1>1, <1>6, <1>7, <1>8 DEF r

-----------------------------------------------------------------------------
(* What a step may have been *)

\* An answer that was not mistaken came from the drive asked, to the question.
LEMMA MatchedSays ==
    ASSUME TypeOK, Untroubled', NEW d, NEW texts, Matched(d, texts)
    PROVE  Answer.from = d /\ Answer.text \in texts /\ mishaps' = mishaps
<1>1. mishaps["crossed"] \in Nat /\ mishaps'["crossed"] = 0 /\ "crossed" \in Mishaps
  BY DEF TypeOK, Untroubled, Mishaps
<1>2. mishaps' # Another("crossed")
  <2>1. mishaps["crossed"] + 1 # 0
    BY <1>1, SMT
  <2> QED
    BY <1>1, <2>1 DEF Another, TypeOK
<1> QED
  BY <1>2 DEF Matched

\* A restart would have been counted.
LEMMA NoRestart ==
    ASSUME TypeOK, Untroubled'
    PROVE  ~LibraryExits /\ \A d : ~DriveRestarts(d)
<1>1. ASSUME NEW kind \in Mishaps, mishaps' = Another(kind)
      PROVE  FALSE
  <2>1. mishaps[kind] \in Nat /\ mishaps'[kind] = 0
    BY DEF TypeOK, Untroubled
  <2>2. mishaps[kind] + 1 # 0
    BY <2>1, SMT
  <2> QED
    BY <1>1, <2>1, <2>2 DEF Another, TypeOK
<1> QED
  BY <1>1 DEF LibraryExits, DriveRestarts, Mishaps

\* What has not happened at the end of a step had not at its beginning.
LEMMA UntroubledBefore ==
    ASSUME TypeOK, Untroubled', [Next]_vars
    PROVE  mishaps' = mishaps /\ Untroubled
<1>1. mishaps' = mishaps
  BY NoRestart, MatchedSays DEF Next, MoveStarts, MoveSlotToSlot, MoveSlotToDrive, MoveFromDrive,
     AnswerTaken, SourceKnown, DestinationKnown, SourceUnloaded, SourceEmptied, DestinationLoaded,
     SourceRestored, OpenClose, MessageTaken, OperatorSends, DriveHandles, HostUnloads,
     LibraryStarts, vars
<1> QED
  BY <1>1 DEF Untroubled

\* The library has its answer: nothing else is on its way.
LEMMA AnswerSays ==
    ASSUME TypeOK, Boxes, LibraryBox, inbox[Lib] # << >>, Answer.text \in AnswerTexts
    PROVE  /\ Busy /\ After(Answer.text)
           /\ In(Tail(inbox[Lib])) \cap Answers = {}
           /\ \A d \in Drives : In(inbox[d]) \subseteq {Registration}
           /\ \A d : EjectComing(d) =>
                 \E m \in In(Tail(inbox[Lib])) : m.from = d /\ m.text = "eject"
<1>1. inbox[Lib] \in Seq(Mail) /\ Answer \in Answers /\ Answer \in In(inbox[Lib])
  <2>1. inbox[Lib] \in Seq(Mail)
    BY PlacesApart DEF TypeOK
  <2> QED
    BY <2>1, QueueTail, MailFacts, PlacesApart DEF Answer, Answers
<1>2. In(Tail(inbox[Lib])) \cap Answers = {} /\ In(inbox[Lib]) \subseteq In(Tail(inbox[Lib])) \cup {Answer}
  BY <1>1, QueueTail DEF LibraryBox, Answer
<1>3. Answer.text # "eject"
  BY DEF AnswerTexts, States
<1> QED
  BY <1>1, <1>2, <1>3 DEF LibraryBox, Boxes, EjectComing

\* The next request of a command is sent.
LEMMA RequestSent ==
    ASSUME TypeOK, Boxes, \A e \in Drives : In(inbox[e]) \subseteq {Registration},
           NEW d \in Drives, NEW m \in Mail, UNCHANGED inLibrary,
           \A e \in Drives : inbox'[e] = IF e = d THEN Append(inbox[d], m) ELSE inbox[e],
           inbox'[Lib] \in Seq(Mail), In(inbox'[Lib]) \cap Answers = {},
           Busy', d = AskedDrive', m = Asked', Before'
    PROVE  Boxes' /\ LibraryBox'
<1>1. \A e \in Drives : inbox[e] \in Seq(Mail)
  BY PlacesApart DEF TypeOK
<1>2. ASSUME NEW e \in Drives
      PROVE  /\ Single(inbox'[e], Mail \ {Registration})
             /\ \A x \in In(inbox'[e]) : x = Registration \/ (e = d /\ x = m)
             /\ ~inLibrary[e] => inbox'[e] # << >> /\ Head(inbox'[e]) = Registration
  <2>1. /\ Single(inbox[e], Mail \ {Registration}) /\ In(inbox[e]) \subseteq {Registration}
        /\ ~inLibrary[e] => inbox[e] # << >> /\ Head(inbox[e]) = Registration
    BY DEF Boxes
  <2>2. CASE e # d
    BY <2>1, <2>2
  <2>3. CASE e = d
    <3> DEFINE q == inbox[e]
    <3>1. q \in Seq(Mail) /\ inbox'[e] = Append(q, m)
      BY <1>1, <2>3
    <3>2. In(q) \cap (Mail \ {Registration}) = {}
      BY <2>1
    <3>3. /\ Append(q, m) # << >> /\ In(Append(q, m)) = In(q) \cup {m}
          /\ q # << >> => Head(Append(q, m)) = Head(q)
          /\ Single(Append(q, m), Mail \ {Registration})
      BY <2>1, <3>1, <3>2, QueueAppend
    <3> QED
      BY <2>1, <2>3, <3>1, <3>3
  <2> QED
    BY <2>2, <2>3
<1>3. Boxes'
  BY <1>2 DEF Boxes, Registration, Request, Message
<1>4. LibraryBox'
  <2>1. Single(inbox'[Lib], Answers)
    BY DEF Single, In
  <2> QED
    BY <2>1 DEF LibraryBox
<1> QED
  BY <1>3, <1>4

\* A command ends with nothing on its way.
LEMMA NothingSent ==
    ASSUME TypeOK, Boxes, \A e \in Drives : In(inbox[e]) \subseteq {Registration},
           UNCHANGED inLibrary, \A e \in Drives : inbox'[e] = inbox[e],
           In(inbox'[Lib]) \cap Answers = {}
    PROVE  Boxes' /\ LibraryBox'
<1>1. LibraryBox'
  BY DEF Single, In, LibraryBox
<1>2. ASSUME NEW e \in Drives
      PROVE  /\ Single(inbox'[e], Mail \ {Registration})
             /\ \A x \in In(inbox'[e]) : x = Registration
             /\ ~inLibrary[e] => inbox'[e] # << >> /\ Head(inbox'[e]) = Registration
  <2>1. /\ Single(inbox[e], Mail \ {Registration}) /\ In(inbox[e]) \subseteq {Registration}
        /\ ~inLibrary[e] => inbox[e] # << >> /\ Head(inbox[e]) = Registration
    BY DEF Boxes
  <2> QED
    BY <2>1
<1>3. Boxes'
  BY <1>2 DEF Boxes, Registration, Request, Message
<1> QED
  BY <1>1, <1>3

\* The library takes a message: the boxes of the drives stay.
LEMMA AnswerOnly ==
    ASSUME TypeOK, inbox[Lib] # << >>, inbox' = [inbox EXCEPT ![Lib] = Tail(@)]
    PROVE  /\ inbox'[Lib] = Tail(inbox[Lib]) /\ inbox'[Lib] \in Seq(Mail)
           /\ \A e \in Drives : inbox'[e] = inbox[e]
BY PlacesApart, MailFacts DEF TypeOK

\* It takes one and sends one.
LEMMA AnswerThenAsk ==
    ASSUME TypeOK, inbox[Lib] # << >>, NEW d \in Drives, NEW m, NEW at, AskNext(d, m, at)
    PROVE  /\ inbox'[Lib] = Tail(inbox[Lib]) /\ inbox'[Lib] \in Seq(Mail)
           /\ \A e \in Drives : inbox'[e] = IF e = d THEN Append(inbox[e], m) ELSE inbox[e]
<1>1. /\ inbox \in [Daemons -> Seq(Mail)] /\ Lib \in Daemons /\ Lib \notin Drives
      /\ Drives \subseteq Daemons /\ Tail(inbox[Lib]) \in Seq(Mail)
  BY PlacesApart, MailFacts DEF TypeOK
<1> QED
  BY <1>1 DEF AskNext, Deliver

\* Between two commands, or from one to none: nothing is on its way and every
\* drive has what the inventory says.
LEMMA IdleAgrees ==
    ASSUME IInv, Agree, move' = Idle, UNCHANGED inLibrary,
           \A e \in Drives : In(inbox[e]) \subseteq {Registration} /\ inbox'[e] = inbox[e],
           In(inbox'[Lib]) \cap Answers = {},
           \A d \in Drives : Same(d)', Fits', Loaded', Access'
    PROVE  Agree'
<1>0. TypeOK /\ Boxes
  BY DEF IInv, Agree
<1>1. Boxes' /\ LibraryBox'
  BY <1>0, NothingSent
<1>2. MoveTrue'
  BY DEF MoveTrue, Idle
<1> QED
  BY <1>1, <1>2 DEF Agree

\* A step between two commands that leaves the drives what they have.
LEMMA IdleKept ==
    ASSUME IInv, Agree, move = Idle, move' = Idle, UNCHANGED drives,
           \A d \in Drives : holds'[d] = holds[d] /\ inbox'[d] = inbox[d],
           In(inbox'[Lib]) \subseteq In(inbox[Lib]),
           \A d \in Drives : \/ access'[d] = access[d] /\ (EjectComing(d) => EjectComing(d)')
                             \/ access'[d] = TRUE
    PROVE  Agree'
<1>1. move.at = "idle" /\ move'.at = "idle" /\ ~Busy
  BY DEF Idle, Busy, Waits
<1>2. \A d \in Drives : Same(d)'
  BY <1>1 DEF Agree, MoveTrue, Same, drives
<1>3. \A d \in Drives : In(inbox[d]) \subseteq {Registration}
  BY <1>1 DEF Agree, Boxes
<1>4. In(inbox'[Lib]) \cap Answers = {}
  BY <1>1 DEF Agree, LibraryBox
<1>5. Fits' /\ Loaded'
  BY <1>1 DEF Agree, Fits, Loaded, drives
<1>6. Access'
  BY <1>1 DEF Agree, Access, drives
<1> QED
  BY <1>2, <1>3, <1>4, <1>5, <1>6, IdleAgrees DEF drives

\* The first request of a command.
LEMMA AskAgrees ==
    ASSUME IInv, Agree, NEW src \in Elements, NEW dst \in Elements,
           \/ MoveSlotToDrive(src, dst) /\ src \in Ports /\ dst \in Drives
           \/ MoveFromDrive(src, dst) /\ src \in Drives
    PROVE  Agree'
<1> DEFINE d  == IF src \in Drives THEN src ELSE dst
           at == IF src \in Drives THEN "src_state" ELSE "dst_state"
           m  == Request("mount_state", None)
<1>1. /\ d \in Drives /\ m \in Mail /\ Ask(d, m, at, src, dst) /\ move = Idle
      /\ UNCHANGED inventory /\ UNCHANGED drives /\ (src \in Ports => holds[src] # None)
  BY PlacesApart, MessagesMail DEF MoveSlotToDrive, MoveFromDrive, Texts
<1>2. move' = [at |-> at, src |-> src, dst |-> dst] /\ move.at = "idle" /\ ~Busy
  BY <1>1 DEF Ask, Idle, Busy, Waits
<1>3. inbox' = [inbox EXCEPT ![d] = Append(@, m)] /\ inbox \in [Daemons -> Seq(Mail)]
  BY <1>1 DEF Ask, Deliver, IInv, TypeOK
<1>4. /\ inbox'[Lib] = inbox[Lib] /\ inbox[Lib] \in Seq(Mail)
      /\ \A e \in Drives : inbox'[e] = IF e = d THEN Append(inbox[e], m) ELSE inbox[e]
  BY <1>1, <1>3, PlacesApart
<1>5. /\ \A e \in Drives : In(inbox[e]) \subseteq {Registration}
      /\ In(inbox'[Lib]) \cap Answers = {}
  BY <1>2, <1>4 DEF Agree, Boxes, LibraryBox
<1>6. Busy' /\ Before' /\ d = AskedDrive' /\ m = Asked'
  BY <1>2 DEF Busy, Waits, Before, AskedDrive, Asked, Request, Message
<1> HIDE DEF m
<1>7. Boxes' /\ LibraryBox'
  <2>1. TypeOK /\ Boxes /\ UNCHANGED inLibrary
    BY <1>1 DEF IInv, Agree, drives
  <2>2. inbox'[Lib] \in Seq(Mail)
    BY <1>4
  <2> QED
    BY <1>1, <1>4, <1>5, <1>6, <2>1, <2>2, RequestSent
<1> HIDE DEF d
<1>8. MoveTrue'
  BY <1>1, <1>2, <1>6 DEF Agree, MoveTrue, Same, inventory, drives
<1>9. Fits' /\ Loaded'
  BY <1>1, <1>2 DEF Agree, Fits, Loaded, inventory, drives
<1>10. Access'
  BY <1>1, <1>2, <1>4 DEF Agree, Access, EjectComing, inventory, drives
<1> QED
  BY <1>7, <1>8, <1>9, <1>10 DEF Agree

\* The next request of a command, sent when the last one was answered.
LEMMA Continues ==
    ASSUME IInv, Agree, inbox[Lib] # << >>, Answer.text \in AnswerTexts,
           NEW d \in Drives, NEW m \in Mail, NEW at \in Waits, AskNext(d, m, at), UNCHANGED drives,
           d = AskedDrive', m = Asked', Before', MoveTrue', Fits',
           \A e \in Drives : ~access'[e] => /\ holds'[e] # None /\ access[e] = FALSE
                                            /\ move.at # "unload" \/ e # move.src,
           move'.at \in {"emptied", "load", "restore"} =>
               \A e \in Drives : e \in {move'.src, move'.dst} => access'[e]
    PROVE  Agree'
<1>1. /\ In(Tail(inbox[Lib])) \cap Answers = {}
      /\ \A e \in Drives : In(inbox[e]) \subseteq {Registration}
      /\ \A e : EjectComing(e) => \E x \in In(Tail(inbox[Lib])) : x.from = e /\ x.text = "eject"
  BY AnswerSays DEF Agree, IInv
<1>2. Busy'
  BY AskNextTypes DEF IInv, Busy
<1>3. TypeOK /\ Boxes /\ UNCHANGED inLibrary
  BY DEF IInv, Agree, drives
<1>4. /\ inbox'[Lib] = Tail(inbox[Lib]) /\ inbox'[Lib] \in Seq(Mail)
      /\ \A e \in Drives : inbox'[e] = IF e = d THEN Append(inbox[e], m) ELSE inbox[e]
  BY <1>3, AnswerThenAsk
<1>5. Boxes' /\ LibraryBox'
  <2>1. In(inbox'[Lib]) \cap Answers = {} /\ inbox'[Lib] \in Seq(Mail)
    BY <1>1, <1>4
  <2>2. \A e \in Drives : inbox'[e] = IF e = d THEN Append(inbox[d], m) ELSE inbox[e]
    BY <1>4
  <2>3. d = AskedDrive' /\ m = Asked' /\ Before'
    OBVIOUS
  <2> QED
    BY <1>1, <1>2, <1>3, <2>1, <2>2, <2>3, RequestSent
<1>6. Loaded'
  BY DEF Agree, Loaded, drives
<1>7. \A e \in Drives : EjectComing(e) => EjectComing(e)'
  BY <1>1, <1>4 DEF EjectComing
<1>8. Access'
  BY <1>7 DEF Agree, Access, drives
<1> QED
  BY <1>5, <1>6, <1>8 DEF Agree

\* A command ends with its answer.
LEMMA Returns ==
    ASSUME IInv, Agree, inbox[Lib] # << >>, Answer.text \in AnswerTexts, Return, UNCHANGED drives,
           \A d \in Drives : Same(d)',
           \A d \in Drives : ~access'[d] =>
               /\ holds'[d] # None
               /\ \/ access[d] = FALSE /\ (move.at # "unload" \/ d # move.src)
                  \/ mounted[d] \/ EjectComing(d)
    PROVE  Agree'
<1>0. TypeOK /\ Boxes /\ LibraryBox
  BY DEF IInv, Agree
<1>1. /\ In(Tail(inbox[Lib])) \cap Answers = {}
      /\ \A d \in Drives : In(inbox[d]) \subseteq {Registration}
      /\ \A d : EjectComing(d) => \E m \in In(Tail(inbox[Lib])) : m.from = d /\ m.text = "eject"
  BY <1>0, AnswerSays
<1>2. /\ inbox'[Lib] = Tail(inbox[Lib])
      /\ \A d \in Drives : inbox'[d] = inbox[d]
  BY <1>0, AnswerOnly DEF Return
<1>3. \A d \in Drives : EjectComing(d) => EjectComing(d)'
  BY <1>1, <1>2 DEF EjectComing
<1>4. Fits' /\ Loaded'
  BY DEF Agree, Fits, Loaded, drives, Return, Idle
<1>5. Access'
  BY <1>3 DEF Agree, Access, drives, Return, Idle
<1>6. move' = Idle /\ UNCHANGED inLibrary
  BY DEF Return, drives
<1>7. In(inbox'[Lib]) \cap Answers = {}
  BY <1>1, <1>2
<1> QED
  BY <1>1, <1>2, <1>4, <1>5, <1>6, <1>7, IdleAgrees

\* Where the cartridge is after move_cart().
LEMMA MovedTo ==
    ASSUME TypeOK, NEW src \in Elements, NEW dst \in Elements, MoveCart(src, dst)
    PROVE  \A e \in Elements :
               holds'[e] = IF e = src THEN None ELSE IF e = dst THEN holds[src] ELSE holds[e]
BY DEF MoveCart, Moved, TypeOK

\* The picker may reach what leaves a drive.
LEMMA PickerReaches ==
    ASSUME TypeOK, NEW src \in Elements, access' = OpenToPicker(src)
    PROVE  \A d \in Drives : access'[d] = (access[d] \/ d = src)
BY DEF OpenToPicker, TypeOK

\* The state of the source drive is told truly: an empty element is never moved.
LEMMA SourceKnownAgrees == IInv /\ Agree /\ Untroubled' /\ SourceKnown => Agree'
<1> SUFFICES ASSUME IInv, Agree, Untroubled', SourceKnown PROVE Agree'
  OBVIOUS
<1> DEFINE src == move.src
           dst == move.dst
<1>0. TypeOK /\ Boxes /\ LibraryBox /\ MoveTrue /\ Access /\ Fits
  BY DEF IInv, Agree
<1>1. /\ move.at = "src_state" /\ inbox[Lib] # << >> /\ UNCHANGED drives
      /\ src \in Drives /\ src \in Elements /\ dst \in Elements /\ src # dst
      /\ Matched(src, States)
  BY PlacesApart DEF SourceKnown, Waiting, IInv, MoveSound
<1>2. Answer.text \in States /\ Answer.text \in AnswerTexts
  BY <1>0, <1>1, MatchedSays DEF AnswerTexts
<1>3. After(Answer.text)
  BY <1>0, <1>1, <1>2, AnswerSays
<1>4. \A d \in Drives : Same(d)
  BY <1>0, <1>1 DEF MoveTrue
<1>5. DriveOccupied(src) <=> holds[src] # None
  BY <1>1, <1>3, <1>4 DEF After, AskedDrive, Same, DriveOccupied
<1>6. \A d \in Drives : ~access[d] => holds[d] # None /\ access[d] = FALSE
  BY <1>0 DEF Access, TypeOK
<1>7. CASE Return /\ UNCHANGED inventory
  <2>1. \A d \in Drives : Same(d)'
    BY <1>1, <1>4, <1>7 DEF Same, inventory, drives
  <2> QED
    BY <1>1, <1>2, <1>6, <1>7, <2>1, Returns DEF inventory
<1>8. CASE /\ holds[src] # None /\ dst \in Drives /\ UNCHANGED inventory
           /\ AskNext(dst, Request("mount_state", None), "dst_state")
  <2>1. move'.at = "dst_state" /\ move'.src = src /\ move'.dst = dst
    BY <1>8, <1>0 DEF AskNext, TypeOK
  <2>2. dst = AskedDrive' /\ Request("mount_state", None) = Asked' /\ Before'
    BY <2>1 DEF AskedDrive, Asked, Before, Request, Message
  <2>3. MoveTrue'
    BY <1>1, <1>4, <1>8, <2>1, PlacesApart DEF MoveTrue, Same, inventory, drives
  <2>4. Fits'
    BY <1>0, <1>1, <1>8, <2>1 DEF Fits, inventory, drives
  <2>5. Request("mount_state", None) \in Mail /\ "dst_state" \in Waits
    BY MessagesMail DEF Texts, Waits
  <2>6. \A e \in Drives : ~access'[e] => /\ holds'[e] # None /\ access[e] = FALSE
                                         /\ move.at # "unload" \/ e # move.src
    BY <1>1, <1>6, <1>8 DEF inventory
  <2>7. move'.at \notin {"emptied", "load", "restore"}
    BY <2>1
  <2> QED
    BY <1>1, <1>2, <1>8, <2>2, <2>3, <2>4, <2>5, <2>6, <2>7, Continues
<1>9. CASE /\ holds[src] # None /\ dst \in Ports /\ holds[dst] = None /\ access[src]
           /\ MoveCart(src, dst) /\ access' = OpenToPicker(src)
           /\ AskNext(src, Request("set_empty", None), "emptied")
  <2>1. move'.at = "emptied" /\ move'.src = src /\ move'.dst = dst
    BY <1>9, <1>0 DEF AskNext, TypeOK
  <2>2. src = AskedDrive' /\ Request("set_empty", None) = Asked' /\ Before'
    BY <2>1 DEF AskedDrive, Asked, Before, Request, Message
  <2>3. \A e \in Elements :
            holds'[e] = IF e = src THEN None ELSE IF e = dst THEN holds[src] ELSE holds[e]
    BY <1>0, <1>1, <1>9, MovedTo
  <2>4. MoveTrue'
    BY <1>1, <1>4, <1>9, <2>1, <2>3, PlacesApart DEF MoveTrue, Same, drives, Busy, Waits
  <2>5. Fits'
    BY <1>0, <1>1, <1>9, <2>1, PlacesApart DEF Fits, drives
  <2>6. Request("set_empty", None) \in Mail /\ "emptied" \in Waits
    BY MessagesMail DEF Texts, Waits
  <2>7. \A d \in Drives : access'[d] = (access[d] \/ d = src)
    BY <1>0, <1>1, <1>9, PickerReaches
  <2>8. \A e \in Drives : ~access'[e] => /\ holds'[e] # None /\ access[e] = FALSE
                                         /\ move.at # "unload" \/ e # move.src
    BY <1>1, <1>6, <1>9, <2>3, <2>7, PlacesApart
  <2>9. \A e \in Drives : e \in {move'.src, move'.dst} => access'[e]
    BY <1>1, <1>9, <2>1, <2>7, PlacesApart
  <2> QED
    BY <1>1, <1>2, <1>9, <2>2, <2>4, <2>5, <2>6, <2>8, <2>9, Continues
<1>10. CASE /\ holds[src] # None /\ dst \in Ports /\ UNCHANGED inventory
            /\ AskNext(src, Request("unload", holds[src]), "unload")
  <2>1. move'.at = "unload" /\ move'.src = src /\ move'.dst = dst
    BY <1>10, <1>0 DEF AskNext, TypeOK
  <2>2. src = AskedDrive' /\ Request("unload", holds[src]) = Asked' /\ Before'
    BY <1>10, <2>1 DEF AskedDrive, Asked, Carried, Before, Request, Message, inventory
  <2>3. MoveTrue'
    BY <1>1, <1>4, <1>10, <2>1, PlacesApart DEF MoveTrue, Same, inventory, drives
  <2>4. Fits'
    BY <1>0, <1>1, <1>10, <2>1, PlacesApart DEF Fits, inventory, drives
  <2>5. Request("unload", holds[src]) \in Mail /\ "unload" \in Waits
    BY <1>0, <1>1, MessagesMail DEF Texts, Waits, TypeOK
  <2>6. \A e \in Drives : ~access'[e] => /\ holds'[e] # None /\ access[e] = FALSE
                                         /\ move.at # "unload" \/ e # move.src
    BY <1>1, <1>6, <1>10 DEF inventory
  <2>7. move'.at \notin {"emptied", "load", "restore"}
    BY <2>1
  <2> QED
    BY <1>1, <1>2, <1>10, <2>2, <2>3, <2>4, <2>5, <2>6, <2>7, Continues
<1> QED
  BY <1>1, <1>5, <1>7, <1>8, <1>9, <1>10 DEF SourceKnown

\* So is the state of the destination drive: it is empty when the move goes on.
LEMMA DestinationKnownAgrees == IInv /\ Agree /\ Untroubled' /\ DestinationKnown => Agree'
<1> SUFFICES ASSUME IInv, Agree, Untroubled', DestinationKnown PROVE Agree'
  OBVIOUS
<1> DEFINE src == move.src
           dst == move.dst
<1>0. TypeOK /\ Boxes /\ LibraryBox /\ MoveTrue /\ Access /\ Fits
  BY DEF IInv, Agree
<1>1. /\ move.at = "dst_state" /\ inbox[Lib] # << >> /\ UNCHANGED drives /\ UNCHANGED inventory
      /\ src \in Elements /\ dst \in Drives /\ dst \in Elements /\ src # dst
      /\ Matched(dst, States)
  BY PlacesApart DEF DestinationKnown, Waiting, IInv, MoveSound
<1>2. Answer.text \in States /\ Answer.text \in AnswerTexts
  BY <1>0, <1>1, MatchedSays DEF AnswerTexts
<1>3. After(Answer.text)
  BY <1>0, <1>1, <1>2, AnswerSays
<1>4. \A d \in Drives : Same(d)
  BY <1>0, <1>1, PlacesApart DEF MoveTrue
<1>5. DriveOccupied(dst) <=> holds[dst] # None
  BY <1>1, <1>3, <1>4 DEF After, AskedDrive, Same, DriveOccupied
<1>6. \A d \in Drives : ~access[d] => holds[d] # None /\ access[d] = FALSE
  BY <1>0 DEF Access, TypeOK
<1>7. \A e \in Drives : ~access'[e] => /\ holds'[e] # None /\ access[e] = FALSE
                                       /\ move.at # "unload" \/ e # move.src
  BY <1>1, <1>6 DEF inventory
<1>8. CASE Return
  <2>1. \A d \in Drives : Same(d)'
    BY <1>1, <1>4 DEF Same, inventory, drives
  <2> QED
    BY <1>1, <1>2, <1>7, <1>8, <2>1, Returns
<1>9. CASE /\ holds[dst] = None /\ src \in Ports
           /\ AskNext(dst, Request("lload", holds[src]), "load")
  <2>0. move'.at = "load" /\ move'.src = src /\ move'.dst = dst
    BY <1>9, <1>0 DEF AskNext, TypeOK
  <2>1. holds[src] # None /\ src \notin Drives /\ barcode[dst] = None
    BY <1>0, <1>1, <1>4, <1>9, PlacesApart DEF MoveTrue, Same
  <2>2. Carried' = holds[src] /\ barcode'[dst] = None
    BY <1>1, <2>0, <2>1 DEF Carried, inventory, drives
  <2>3. dst = AskedDrive' /\ Request("lload", holds[src]) = Asked' /\ Before'
    BY <2>0, <2>2 DEF AskedDrive, Asked, Before, Request, Message
  <2>4. MoveTrue'
    BY <1>1, <1>4, <2>0, <2>1, <2>2 DEF MoveTrue, Same, Busy, Waits, inventory, drives
  <2>5. Fits'
    BY <1>0, <1>1, <2>0, <2>1 DEF Fits, inventory, drives
  <2>6. Request("lload", holds[src]) \in Mail /\ "load" \in Waits
    BY <1>0, <1>1, MessagesMail DEF Texts, Waits, TypeOK
  <2>7. \A e \in Drives : e \in {move'.src, move'.dst} => access'[e]
    BY <1>1, <1>6, <1>9, <2>0, <2>1 DEF inventory
  <2> QED
    BY <1>1, <1>2, <1>7, <1>9, <2>3, <2>4, <2>5, <2>6, <2>7, Continues
<1>10. CASE /\ holds[dst] = None /\ src \in Drives /\ holds[src] # None
            /\ AskNext(src, Request("unload", holds[src]), "unload")
  <2>0. move'.at = "unload" /\ move'.src = src /\ move'.dst = dst
    BY <1>10, <1>0 DEF AskNext, TypeOK
  <2>1. <<src, holds[src]>> \notin Unloadable
    BY <1>0, <1>4, <1>10 DEF Fits, Same
  <2>2. src = AskedDrive' /\ Request("unload", holds[src]) = Asked' /\ Before'
    BY <1>1, <2>0 DEF AskedDrive, Asked, Carried, Before, Request, Message, inventory
  <2>3. MoveTrue'
    BY <1>1, <1>4, <1>10, <2>0, PlacesApart DEF MoveTrue, Same, inventory, drives
  <2>4. Fits'
    BY <1>0, <1>1, <2>0, <2>1 DEF Fits, inventory, drives
  <2>5. Request("unload", holds[src]) \in Mail /\ "unload" \in Waits
    BY <1>0, <1>1, MessagesMail DEF Texts, Waits, TypeOK
  <2>6. move'.at \notin {"emptied", "load", "restore"}
    BY <2>0
  <2> QED
    BY <1>1, <1>2, <1>7, <1>10, <2>2, <2>3, <2>4, <2>5, <2>6, Continues
<1>11. holds[src] # None
  BY <1>0, <1>1 DEF MoveTrue
<1> QED
  BY <1>1, <1>5, <1>8, <1>9, <1>10, <1>11 DEF DestinationKnown

\* The drive has unloaded what the inventory says it had.
LEMMA SourceUnloadedAgrees == IInv /\ Agree /\ Untroubled' /\ SourceUnloaded => Agree'
<1> SUFFICES ASSUME IInv, Agree, Untroubled', SourceUnloaded PROVE Agree'
  OBVIOUS
<1> DEFINE src == move.src
           dst == move.dst
<1>0. TypeOK /\ Boxes /\ LibraryBox /\ MoveTrue /\ Access /\ Fits
  BY DEF IInv, Agree
<1>1. /\ move.at = "unload" /\ inbox[Lib] # << >> /\ UNCHANGED drives
      /\ src \in Drives /\ src \in Elements /\ dst \in Elements /\ src # dst
      /\ holds[dst] = None
      /\ Matched(src, {"Unloaded OK"})
  BY PlacesApart DEF SourceUnloaded, Waiting, IInv, MoveSound
<1>2. Answer.text = "Unloaded OK" /\ Answer.text \in AnswerTexts
  BY <1>0, <1>1, MatchedSays DEF AnswerTexts
<1>3. barcode[src] = None
  BY <1>0, <1>1, <1>2, AnswerSays DEF After
<1>4. /\ MoveCart(src, dst) /\ access' = OpenToPicker(src)
      /\ AskNext(src, Request("set_empty", None), "emptied")
  BY <1>2 DEF SourceUnloaded
<1>5. /\ holds[src] # None /\ (dst \in Drives => Same(dst))
      /\ \A d \in Drives : d \notin {src, dst} => Same(d)
  BY <1>0, <1>1 DEF MoveTrue
<1>6. move'.at = "emptied" /\ move'.src = src /\ move'.dst = dst
  BY <1>4, <1>0 DEF AskNext, TypeOK
<1>7. src = AskedDrive' /\ Request("set_empty", None) = Asked' /\ Before'
  BY <1>6 DEF AskedDrive, Asked, Before, Request, Message
<1>8. \A e \in Elements :
          holds'[e] = IF e = src THEN None ELSE IF e = dst THEN holds[src] ELSE holds[e]
  BY <1>0, <1>1, <1>4 DEF MoveCart, Moved, TypeOK
<1>9. MoveTrue'
  BY <1>1, <1>3, <1>5, <1>6, <1>8, PlacesApart DEF MoveTrue, Same, drives, Busy, Waits
<1>10. Fits'
  BY <1>0, <1>1, <1>6, <1>8 DEF Fits, drives
<1>11. Request("set_empty", None) \in Mail /\ "emptied" \in Waits
  BY MessagesMail DEF Texts, Waits
<1>12. \A d \in Drives : access'[d] = (access[d] \/ d = src)
  BY <1>0, <1>1, <1>4, PickerReaches
<1>13. \A d \in Drives : ~access[d] => holds[d] # None /\ access[d] = FALSE
  BY <1>0 DEF Access, TypeOK
<1>14. \A e \in Drives : ~access'[e] => /\ holds'[e] # None /\ access[e] = FALSE
                                        /\ move.at # "unload" \/ e # move.src
  BY <1>1, <1>8, <1>12, <1>13, PlacesApart
<1>15. \A e \in Drives : e \in {move'.src, move'.dst} => access'[e]
  BY <1>1, <1>6, <1>12, <1>13
<1> QED
  BY <1>1, <1>2, <1>4, <1>7, <1>9, <1>10, <1>11, <1>14, <1>15, Continues

\* The source drive is empty: the cartridge is where move_cart() put it, or on
\* its way into the other drive.
LEMMA SourceEmptiedAgrees == IInv /\ Agree /\ Untroubled' /\ SourceEmptied => Agree'
<1> SUFFICES ASSUME IInv, Agree, Untroubled', SourceEmptied PROVE Agree'
  OBVIOUS
<1> DEFINE src == move.src
           dst == move.dst
<1>0. TypeOK /\ Boxes /\ LibraryBox /\ MoveTrue /\ Access /\ Fits
  BY DEF IInv, Agree
<1>1. /\ move.at = "emptied" /\ inbox[Lib] # << >> /\ UNCHANGED drives /\ UNCHANGED inventory
      /\ src \in Drives /\ src \in Elements /\ dst \in Elements /\ src # dst
      /\ holds[src] = None
      /\ Matched(src, {"Unloaded OK"})
  BY PlacesApart DEF SourceEmptied, Waiting, IInv, MoveSound
<1>2. Answer.text \in AnswerTexts
  BY <1>0, <1>1, MatchedSays DEF AnswerTexts
<1>3. barcode[src] = None
  BY <1>0, <1>1, <1>2, AnswerSays DEF After
<1>4. /\ holds[dst] # None /\ (dst \in Drives => barcode[dst] = None)
      /\ \A d \in Drives : d \notin {src, dst} => Same(d)
  BY <1>0, <1>1 DEF MoveTrue
<1>5. \A d \in Drives : ~access[d] => holds[d] # None /\ access[d] = FALSE
  BY <1>0 DEF Access, TypeOK
<1>6. \A e \in Drives : ~access'[e] => /\ holds'[e] # None /\ access[e] = FALSE
                                       /\ move.at # "unload" \/ e # move.src
  BY <1>1, <1>5 DEF inventory
<1>7. CASE dst \in Drives /\ AskNext(dst, Request("lload", holds[dst]), "load")
  <2>0. move'.at = "load" /\ move'.src = src /\ move'.dst = dst
    BY <1>7, <1>0 DEF AskNext, TypeOK
  <2>1. Carried' = holds[dst] /\ barcode'[dst] = None
    BY <1>1, <1>4, <1>7, <2>0 DEF Carried, inventory, drives
  <2>2. dst = AskedDrive' /\ Request("lload", holds[dst]) = Asked' /\ Before'
    BY <2>0, <2>1 DEF AskedDrive, Asked, Before, Request, Message
  <2>3. MoveTrue'
    BY <1>1, <1>3, <1>4, <2>0, <2>1 DEF MoveTrue, Same, Busy, Waits, inventory, drives
  <2>4. Fits'
    BY <1>0, <1>1, <1>7, <2>0 DEF Fits, inventory, drives
  <2>5. Request("lload", holds[dst]) \in Mail /\ "load" \in Waits
    BY <1>0, <1>1, MessagesMail DEF Texts, Waits, TypeOK
  <2>6. \A e \in Drives : e \in {move'.src, move'.dst} => access'[e]
    BY <1>0, <1>1, <2>0 DEF Access, inventory
  <2> QED
    BY <1>1, <1>2, <1>6, <1>7, <2>2, <2>3, <2>4, <2>5, <2>6, Continues
<1>8. CASE dst \notin Drives /\ Return
  <2>1. \A d \in Drives : Same(d)'
    BY <1>1, <1>3, <1>4, <1>8 DEF Same, inventory, drives
  <2> QED
    BY <1>1, <1>2, <1>6, <1>8, <2>1, Returns
<1> QED
  BY <1>7, <1>8 DEF SourceEmptied

\* The cartridge arrives, stays in its slot, or goes back to its drive.
LEMMA DestinationLoadedAgrees == IInv /\ Agree /\ Untroubled' /\ DestinationLoaded => Agree'
<1> SUFFICES ASSUME IInv, Agree, Untroubled', DestinationLoaded PROVE Agree'
  OBVIOUS
<1> DEFINE src == move.src
           dst == move.dst
<1>0. TypeOK /\ Boxes /\ LibraryBox /\ MoveTrue /\ Access /\ Fits /\ Loaded
  BY DEF IInv, Agree
<1>1. /\ move.at = "load" /\ inbox[Lib] # << >> /\ UNCHANGED drives
      /\ src \in Elements /\ dst \in Drives /\ dst \in Elements /\ src # dst
      /\ src \in Ports => holds[dst] = None
      /\ src \in Drives => holds[src] = None
      /\ Matched(dst, {"Loaded OK", "Load failed"})
  BY PlacesApart DEF DestinationLoaded, Waiting, IInv, MoveSound
<1>2. Answer.text \in AnswerTexts
  BY <1>0, <1>1, MatchedSays DEF AnswerTexts
<1>3. IF Answer.text = "Loaded OK"
      THEN barcode[dst] = Carried /\ (mounted[dst] \/ EjectComing(dst))
      ELSE barcode[dst] = None
  BY <1>0, <1>1, <1>2, AnswerSays DEF After
<1>4. /\ Carried # None /\ (src \in Drives => barcode[src] = None)
      /\ Carried = IF src \in Drives THEN holds[dst] ELSE holds[src]
      /\ \A d \in Drives : d \notin {src, dst} => Same(d)
  BY <1>0, <1>1 DEF MoveTrue, Carried
<1>5. /\ \A d \in Drives : ~access[d] => holds[d] # None /\ access[d] = FALSE
      /\ \A d \in Drives : d \in {src, dst} => access[d]
  BY <1>0, <1>1 DEF Access, TypeOK
<1>6. CASE /\ Answer.text = "Loaded OK" /\ Return /\ access' = [access EXCEPT ![dst] = FALSE]
           /\ IF src \in Ports THEN MoveCart(src, dst) ELSE UNCHANGED <<holds, last, open>>
  <2>1. \A e \in Elements : e \in Drives =>
            holds'[e] = IF e = dst THEN Carried ELSE IF e = src THEN None ELSE holds[e]
    <3>1. CASE src \in Ports
      <4>1. \A e \in Elements :
                holds'[e] = IF e = src THEN None ELSE IF e = dst THEN holds[src] ELSE holds[e]
        BY <1>0, <1>1, <1>6, <3>1 DEF MoveCart, Moved, TypeOK
      <4> QED
        BY <1>1, <1>4, <3>1, <4>1, PlacesApart
    <3>2. CASE src \notin Ports
      BY <1>1, <1>4, <1>6, <3>2, PlacesApart
    <3> QED
      BY <3>1, <3>2
  <2>2. \A d \in Drives : Same(d)'
    BY <1>1, <1>3, <1>4, <1>6, <2>1, PlacesApart DEF Same, drives
  <2>3. \A d \in Drives : access'[d] = (access[d] /\ d # dst)
    BY <1>0, <1>1, <1>6 DEF TypeOK
  <2>4. \A d \in Drives : ~access'[d] =>
            /\ holds'[d] # None
            /\ \/ access[d] = FALSE /\ (move.at # "unload" \/ d # move.src)
               \/ mounted[d] \/ EjectComing(d)
    BY <1>1, <1>3, <1>4, <1>5, <1>6, <2>1, <2>3, PlacesApart
  <2> QED
    BY <1>1, <1>2, <1>6, <2>2, <2>4, Returns
<1>7. CASE Answer.text # "Loaded OK" /\ src \in Ports /\ Return /\ UNCHANGED inventory
  <2>1. \A d \in Drives : Same(d)'
    BY <1>1, <1>3, <1>4, <1>7, PlacesApart DEF Same, inventory, drives
  <2>2. \A d \in Drives : ~access'[d] =>
            holds'[d] # None /\ access[d] = FALSE /\ (move.at # "unload" \/ d # move.src)
    BY <1>1, <1>5, <1>7 DEF inventory
  <2> QED
    BY <1>1, <1>2, <1>7, <2>1, <2>2, Returns
<1>8. CASE /\ Answer.text # "Loaded OK" /\ src \in Drives /\ MoveCart(dst, src)
           /\ access' = OpenToPicker(dst)
           /\ AskNext(src, Request("lload", holds[dst]), "restore")
  <2>0. move'.at = "restore" /\ move'.src = src /\ move'.dst = dst
    BY <1>8, <1>0 DEF AskNext, TypeOK
  <2>1. \A e \in Elements :
            holds'[e] = IF e = dst THEN None ELSE IF e = src THEN holds[dst] ELSE holds[e]
    BY <1>0, <1>1, <1>8 DEF MoveCart, Moved, TypeOK
  <2>2. holds'[src] = holds[dst] /\ holds'[dst] = None /\ holds[dst] # None
    BY <1>1, <1>4, <1>8, <2>1
  <2>3. Carried' = holds'[src] /\ barcode'[src] = None
    BY <1>1, <1>4, <1>8, <2>0 DEF Carried, drives
  <2>4. src = AskedDrive' /\ Request("lload", holds[dst]) = Asked' /\ Before'
    BY <2>0, <2>2, <2>3 DEF AskedDrive, Asked, Before, Request, Message
  <2>5. MoveTrue'
    <3>1. \A d \in Drives : Same(d)' \/ (Busy /\ d \in {src, dst})'
      BY <1>1, <1>4, <2>0, <2>1, PlacesApart DEF Same, Busy, Waits, drives
    <3>2. barcode'[dst] = None
      BY <1>1, <1>3, <1>8 DEF drives
    <3> QED
      BY <1>1, <1>8, <2>0, <2>2, <2>3, <3>1, <3>2 DEF MoveTrue
  <2>6. Fits'
    BY <1>0, <1>1, <1>8, <2>0, <2>2 DEF Fits, drives
  <2>7. Request("lload", holds[dst]) \in Mail /\ "restore" \in Waits
    BY <1>0, <1>1, MessagesMail DEF Texts, Waits, TypeOK
  <2>8. \A d \in Drives : access'[d] = (access[d] \/ d = dst)
    BY <1>0, <1>1, <1>8, PickerReaches
  <2>9. \A e \in Drives : ~access'[e] => /\ holds'[e] # None /\ access[e] = FALSE
                                         /\ move.at # "unload" \/ e # move.src
    BY <1>1, <1>5, <2>1, <2>8, PlacesApart
  <2>10. \A e \in Drives : e \in {move'.src, move'.dst} => access'[e]
    BY <1>1, <1>5, <2>0, <2>8
  <2> QED
    BY <1>1, <1>2, <1>8, <2>4, <2>5, <2>6, <2>7, <2>9, <2>10, Continues
<1> QED
  BY <1>6, <1>7, <1>8 DEF DestinationLoaded, PutBack

\* The drive has its cartridge back: it is not one that loadTape() refuses.
LEMMA SourceRestoredAgrees == IInv /\ Agree /\ Untroubled' /\ SourceRestored => Agree'
<1> SUFFICES ASSUME IInv, Agree, Untroubled', SourceRestored PROVE Agree'
  OBVIOUS
<1>0. TypeOK /\ Boxes /\ LibraryBox /\ MoveTrue /\ Access
  BY DEF IInv, Agree
<1>1. /\ move.at = "restore" /\ inbox[Lib] # << >> /\ UNCHANGED drives /\ UNCHANGED inventory
      /\ Return /\ Matched(move.src, {"Loaded OK", "Load failed"})
  BY DEF SourceRestored, Waiting
<1>2. Answer.text \in AnswerTexts
  BY <1>0, <1>1, MatchedSays DEF AnswerTexts
<1>3. barcode[move.src] = Carried
  BY <1>0, <1>1, <1>2, AnswerSays DEF After
<1>4. Carried = holds[move.src]
  BY <1>1 DEF Carried
<1>5. \A d \in Drives : Same(d)'
  BY <1>0, <1>1, <1>3, <1>4 DEF MoveTrue, Same, inventory, drives
<1>6. \A d \in Drives : ~access'[d] =>
          holds'[d] # None /\ access[d] = FALSE /\ (move.at # "unload" \/ d # move.src)
  BY <1>0, <1>1 DEF Access, TypeOK, inventory
<1> QED
  BY <1>1, <1>2, <1>5, <1>6, Returns

-----------------------------------------------------------------------------
(* Between two commands *)

\* A move between slots touches no drive.
LEMMA SlotToSlotAgrees ==
    ASSUME IInv, Agree, NEW src \in Ports, NEW dst \in Ports, MoveSlotToSlot(src, dst)
    PROVE  Agree'
<1>0. TypeOK /\ src \in Elements /\ dst \in Elements /\ src \notin Drives /\ dst \notin Drives
  BY PlacesApart DEF IInv
<1>1. /\ move = Idle /\ move' = Idle /\ UNCHANGED drives /\ MoveCart(src, dst)
      /\ inbox' = inbox /\ access' = access
  BY DEF MoveSlotToSlot
<1>2. \A d \in Drives : holds'[d] = holds[d]
  BY <1>0, <1>1, MovedTo, PlacesApart
<1>3. \A d \in Drives : access'[d] = access[d] /\ (EjectComing(d) => EjectComing(d)')
  BY <1>1 DEF EjectComing
<1> QED
  BY <1>1, <1>2, <1>3, IdleKept

\* So does the door of the import/export elements.
LEMMA OpenCloseAgrees == IInv /\ Agree /\ OpenClose => Agree'
<1> SUFFICES ASSUME IInv, Agree, OpenClose PROVE Agree'
  OBVIOUS
<1>1. /\ move = Idle /\ move' = Idle /\ UNCHANGED drives /\ holds' = holds
      /\ inbox' = inbox /\ access' = access
  BY DEF OpenClose
<1>2. \A d \in Drives : access'[d] = access[d] /\ (EjectComing(d) => EjectComing(d)')
  BY <1>1 DEF EjectComing
<1> QED
  BY <1>1, <1>2, IdleKept

\* A message read between two commands is no answer that somebody waits for: an
\* eject opens the drive to the picker, the others are about the ports.
LEMMA MessageTakenAgrees == IInv /\ Agree /\ MessageTaken => Agree'
<1> SUFFICES ASSUME IInv, Agree, MessageTaken PROVE Agree'
  OBVIOUS
<1>0. TypeOK /\ Access
  BY DEF IInv, Agree
<1>1. /\ move = Idle /\ move' = Idle /\ UNCHANGED drives /\ inbox[Lib] # << >>
      /\ inbox' = [inbox EXCEPT ![Lib] = Tail(@)]
  BY DEF MessageTaken
<1>2. inbox[Lib] \in Seq(Mail)
  BY <1>0, PlacesApart DEF TypeOK
<1>3. /\ In(Tail(inbox[Lib])) \subseteq In(inbox[Lib])
      /\ In(inbox[Lib]) \subseteq In(Tail(inbox[Lib])) \cup {Answer}
  BY <1>1, <1>2, QueueTail DEF Answer
<1>4. /\ inbox'[Lib] = Tail(inbox[Lib])
      /\ \A d \in Drives : inbox'[d] = inbox[d]
  BY <1>0, <1>1, AnswerOnly
<1>5. \A d \in Drives : EjectComing(d) =>
          EjectComing(d)' \/ (Answer.from = d /\ Answer.text = "eject")
  BY <1>3, <1>4 DEF EjectComing
<1>6. \A d \in Drives : holds'[d] = holds[d]
  BY <1>0, PlacesApart, ZenonT(40) DEF MessageTaken, EjectSeen, OpenMap, CloseMap, EmptyMap, LoadMap, FreeMaps,
     Dropped, TypeOK, inventory, Ports
<1>7. CASE Answer.text = "eject"
  <2>1. EjectSeen
    BY <1>7 DEF MessageTaken, OpenMap, CloseMap, EmptyMap, LoadMap, Dropped, States
  <2>2. \A d \in Drives : ~access[d] => holds[d] # None
    BY <1>0 DEF Access
  <2>3. \A d \in Drives : d = Answer.from => access'[d] = TRUE \/ (access'[d] = access[d] /\ access[d] = TRUE)
    BY <1>0, <2>1, <2>2 DEF EjectSeen, TypeOK
  <2>4. \A d \in Drives : d # Answer.from => access'[d] = access[d]
    BY <1>0, <2>1 DEF EjectSeen, TypeOK
  <2>5. \A d \in Drives : \/ access'[d] = access[d] /\ (EjectComing(d) => EjectComing(d)')
                          \/ access'[d] = TRUE
    BY <1>5, <2>3, <2>4
  <2> QED
    BY <1>1, <1>3, <1>4, <1>6, <2>5, IdleKept
<1>8. CASE Answer.text # "eject"
  <2>1. access' = access
    BY <1>8 DEF MessageTaken, EjectSeen, OpenMap, CloseMap, EmptyMap, LoadMap, Dropped, inventory
  <2>2. \A d \in Drives : access'[d] = access[d] /\ (EjectComing(d) => EjectComing(d)')
    BY <1>5, <1>8, <2>1
  <2> QED
    BY <1>1, <1>3, <1>4, <1>6, <2>2, IdleKept
<1> QED
  BY <1>7, <1>8

-----------------------------------------------------------------------------
(* What the others send *)

\* A message that answers nothing leaves the command in progress alone.
LEMMA NoticeSent ==
    ASSUME IInv, Agree, NEW m \in Mail, m \notin Answers,
           inbox' = [inbox EXCEPT ![Lib] = Append(@, m)],
           UNCHANGED inventory, UNCHANGED move, UNCHANGED barcode, UNCHANGED inLibrary,
           \A d \in Drives : mounted'[d] => mounted[d],
           \A d \in Drives : mounted[d] => mounted'[d] \/ (m.from = d /\ m.text = "eject")
    PROVE  Agree'
<1>0. TypeOK /\ MoveTrue /\ Boxes /\ LibraryBox /\ Fits /\ Loaded /\ Access
  BY DEF IInv, Agree
<1>1. inbox \in [Daemons -> Seq(Mail)] /\ inbox[Lib] \in Seq(Mail)
  BY <1>0, PlacesApart DEF TypeOK
<1>2. inbox'[Lib] = Append(inbox[Lib], m) /\ \A d \in Drives : inbox'[d] = inbox[d]
  BY <1>1, PlacesApart
<1>3. /\ In(inbox'[Lib]) = In(inbox[Lib]) \cup {m}
      /\ Single(inbox'[Lib], Answers)
  BY <1>0, <1>1, <1>2, QueueAppend DEF LibraryBox
<1>4. In(inbox'[Lib]) \cap Answers = In(inbox[Lib]) \cap Answers
  BY <1>3
<1>5. \A d : (EjectComing(d) => EjectComing(d)') /\ (m.from = d /\ m.text = "eject" => EjectComing(d)')
  BY <1>3 DEF EjectComing
<1>6. MoveTrue' /\ Fits' /\ Loaded'
  BY <1>0 DEF MoveTrue, Same, Busy, Carried, Fits, Loaded, inventory
<1>7. Access'
  BY <1>0, <1>5 DEF Access, inventory
<1>8. Boxes'
  <2>1. Busy' = Busy /\ AskedDrive' = AskedDrive /\ Asked' = Asked /\ Before' = Before
    BY DEF Busy, AskedDrive, Asked, Carried, Before, inventory, Request, Message
  <2>2. ASSUME NEW d \in Drives
        PROVE  /\ Single(inbox'[d], Mail \ {Registration})
               /\ \A x \in In(inbox'[d]) :
                    \/ x = Registration
                    \/ /\ Busy' /\ d = AskedDrive' /\ x = Asked' /\ Before'
                       /\ In(inbox'[Lib]) \cap Answers = {}
               /\ ~inLibrary'[d] => inbox'[d] # << >> /\ Head(inbox'[d]) = Registration
    BY <1>0, <1>2, <1>4, <2>1 DEF Boxes
  <2> QED
    BY <2>2 DEF Boxes, Registration, Request, Message
<1>9. LibraryBox'
  <2>1. \A x \in In(inbox'[Lib]) \cap Answers : Busy /\ After(x.text)
    BY <1>0, <1>4 DEF LibraryBox
  <2>2. \A x \in In(inbox'[Lib]) \cap Answers : Busy'
    BY <2>1 DEF Busy
  <2>3. ASSUME NEW x \in In(inbox'[Lib]) \cap Answers
        PROVE  After(x.text)'
    <3>1. move'.at = "load" => move.dst \in Drives
      BY <1>0 DEF IInv, MoveSound
    <3>2. After(x.text)
      BY <2>1
    <3>3. Carried' = Carried /\ AskedDrive' = AskedDrive
      BY DEF Carried, AskedDrive, inventory
    <3>4. move.at = "load" =>
              (mounted[move.dst] \/ EjectComing(move.dst)
                  => mounted'[move.dst] \/ EjectComing(move.dst)')
      BY <1>3, <3>1 DEF EjectComing
    <3> QED
      BY <3>2, <3>3, <3>4 DEF After, EjectComing
  <2>4. Single(inbox'[Lib], Answers)
    BY <1>3
  <2> QED
    BY <2>2, <2>3, <2>4 DEF LibraryBox, Answers, Mail, Daemons, Texts, AnswerTexts, States
<1> QED
  BY <1>6, <1>7, <1>8, <1>9 DEF Agree

\* vtlcmd sends no answers.
LEMMA OperatorSendsAgrees == IInv /\ Agree /\ OperatorSends => Agree'
<1> SUFFICES ASSUME IInv, Agree, OperatorSends PROVE Agree'
  OBVIOUS
<1>1. PICK m \in OperatorMessages : inbox' = [inbox EXCEPT ![Lib] = Append(@, m)]
  BY DEF OperatorSends, Deliver
<1>2. m \in Mail /\ m \notin Answers
  BY TextsKnown DEF OperatorMessages, Mail, Texts, OperatorTexts, Answers, AnswerTexts, States
<1>3. /\ UNCHANGED inventory /\ UNCHANGED move /\ UNCHANGED barcode /\ UNCHANGED inLibrary
      /\ UNCHANGED mounted
  BY DEF OperatorSends, drives
<1>4. /\ \A d \in Drives : mounted'[d] => mounted[d]
      /\ \A d \in Drives : mounted[d] => mounted'[d] \/ (m.from = d /\ m.text = "eject")
  BY <1>3
<1> QED
  BY <1>1, <1>2, <1>3, <1>4, NoticeSent

\* A drive with a tape is registered: the library hears of every eject.
LEMMA HostUnloadsAgrees ==
    ASSUME IInv, Agree, NEW d \in Drives, HostUnloads(d)
    PROVE  Agree'
<1> DEFINE m == Message(d, "eject", None)
<1>1. m \in Mail /\ m \notin Answers /\ m.from = d /\ m.text = "eject"
  BY MessagesMail DEF Texts, Answers, AnswerTexts, States, Message
<1>2. inLibrary[d] /\ mounted' = [mounted EXCEPT ![d] = FALSE]
  BY DEF Agree, Loaded, HostUnloads
<1>3. inbox' = [inbox EXCEPT ![Lib] = Append(@, m)]
  BY <1>2 DEF HostUnloads, EjectSent, Deliver
<1>4. /\ UNCHANGED inventory /\ UNCHANGED move /\ UNCHANGED barcode /\ UNCHANGED inLibrary
  BY DEF HostUnloads
<1>5. /\ \A e \in Drives : mounted'[e] => mounted[e]
      /\ \A e \in Drives : mounted[e] => mounted'[e] \/ (m.from = e /\ m.text = "eject")
  BY <1>1, <1>2 DEF IInv, TypeOK
<1> HIDE DEF m
<1> QED
  BY <1>1, <1>3, <1>4, <1>5, NoticeSent

-----------------------------------------------------------------------------
(* What a drive does with its oldest message *)

\* It is the registration, or the request of the command in progress.
LEMMA OldestIs ==
    ASSUME TypeOK, Boxes, NEW d \in Drives, inbox[d] # << >>, Head(inbox[d]) # Registration
    PROVE  /\ Busy /\ d = AskedDrive /\ Head(inbox[d]) = Asked /\ Before
           /\ inLibrary[d] /\ In(inbox[Lib]) \cap Answers = {}
           /\ In(Tail(inbox[d])) \subseteq {Registration}
           /\ \A e \in Drives : e # d => In(inbox[e]) \subseteq {Registration}
<1>1. inbox[d] \in Seq(Mail)
  BY PlacesApart DEF TypeOK
<1>2. /\ Tail(inbox[d]) \in Seq(Mail) /\ Head(inbox[d]) \in In(inbox[d])
      /\ Head(inbox[d]) \in Mail
  BY <1>1, QueueTail, SequenceFacts
<1>3. In(Tail(inbox[d])) \cap (Mail \ {Registration}) = {}
  BY <1>1, <1>2, QueueTail DEF Boxes
<1>4. In(Tail(inbox[d])) \subseteq In(inbox[d])
  BY <1>1, QueueTail
<1>5. In(Tail(inbox[d])) \subseteq Mail
  <2>1. \A q \in Seq(Mail) : In(q) \subseteq Mail
    BY DEF In
  <2> QED
    BY <1>2, <2>1
<1> QED
  BY <1>2, <1>3, <1>5 DEF Boxes

\* An answer is the only message on its way.
LEMMA Replied ==
    ASSUME TypeOK, Boxes, NEW d \in Drives, inbox[d] # << >>, Head(inbox[d]) # Registration,
           NEW text \in AnswerTexts, Reply(d, text), UNCHANGED move, UNCHANGED inLibrary
    PROVE  /\ Boxes'
           /\ Single(inbox'[Lib], Answers)
           /\ \A m \in In(inbox'[Lib]) \cap Answers : m.text = text
           /\ \A e \in Drives : EjectComing(e) => EjectComing(e)'
<1> DEFINE r == Message(d, text, None)
<1>1. /\ inLibrary[d] /\ In(inbox[Lib]) \cap Answers = {}
      /\ In(Tail(inbox[d])) \subseteq {Registration}
      /\ \A e \in Drives : e # d => In(inbox[e]) \subseteq {Registration}
  BY OldestIs
<1>2. inbox \in [Daemons -> Seq(Mail)] /\ inbox[Lib] \in Seq(Mail)
  BY PlacesApart DEF TypeOK
<1>3. r \in Mail /\ r \in Answers /\ r.text = text
  BY MessagesMail DEF AnswerTexts, States, Texts, Answers, Message
<1>4. inbox' = [inbox EXCEPT ![d] = Tail(@), ![Lib] = Append(@, r)]
  BY DEF Reply, Deliver
<1> HIDE DEF r
<1>5. /\ inbox'[Lib] = Append(inbox[Lib], r) /\ inbox'[d] = Tail(inbox[d])
      /\ \A e \in Drives : e # d => inbox'[e] = inbox[e]
  BY <1>2, <1>4, PlacesApart
<1>6. In(inbox'[Lib]) = In(inbox[Lib]) \cup {r}
  BY <1>2, <1>3, <1>5, QueueAppend
<1>7. Single(inbox'[Lib], Answers)
  <2>1. Single(inbox[Lib], Answers)
    BY <1>1 DEF Single, In
  <2> QED
    BY <1>1, <1>2, <1>3, <1>5, <2>1, QueueAppend
<1>8. ASSUME NEW e \in Drives
      PROVE  /\ Single(inbox'[e], Mail \ {Registration})
             /\ \A x \in In(inbox'[e]) : x = Registration
             /\ ~inLibrary[e] => inbox'[e] # << >> /\ Head(inbox'[e]) = Registration
  <2>1. In(inbox'[e]) \subseteq {Registration}
    BY <1>1, <1>5
  <2>2. Single(inbox'[e], Mail \ {Registration})
    BY <2>1 DEF Single, In
  <2>3. ~inLibrary[e] => inbox'[e] # << >> /\ Head(inbox'[e]) = Registration
    BY <1>1, <1>5 DEF Boxes
  <2> QED
    BY <2>1, <2>2, <2>3
<1>9. Boxes'
  BY <1>8 DEF Boxes, Registration, Request, Message
<1>10. \A m \in In(inbox'[Lib]) \cap Answers : m.text = text
  BY <1>1, <1>3, <1>6
<1>11. \A e \in Drives : EjectComing(e) => EjectComing(e)'
  BY <1>6 DEF EjectComing
<1> QED
  BY <1>7, <1>9, <1>10, <1>11

\* What was asked, by its text.
LEMMA AskedIs ==
    ASSUME Busy
    PROVE  /\ Asked.text = "mount_state" => move.at \in {"src_state", "dst_state"}
           /\ Asked.text = "unload" => move.at = "unload"
           /\ Asked.text = "set_empty" => move.at = "emptied"
           /\ Asked.text = "lload" => move.at \in {"load", "restore"} /\ Asked.cart = Carried
           /\ Asked.text # "Register"
<1>1. CASE move.at \in {"src_state", "dst_state"}
  BY <1>1 DEF Asked, Request, Message
<1>2. CASE move.at = "unload"
  BY <1>2 DEF Asked, Request, Message
<1>3. CASE move.at = "emptied"
  BY <1>3 DEF Asked, Request, Message
<1>4. CASE move.at \in {"load", "restore"}
  BY <1>4 DEF Asked, Request, Message
<1> QED
  BY <1>1, <1>2, <1>3, <1>4 DEF Busy, Waits

\* "Register": the drive belongs to the library.
LEMMA RegisterAgrees ==
    ASSUME IInv, Agree, NEW d \in Drives, inbox[d] # << >>, Head(inbox[d]) = Registration,
           DriveHandles(d)
    PROVE  Agree'
<1>0. TypeOK /\ MoveTrue /\ Boxes /\ LibraryBox /\ Fits /\ Loaded /\ Access
  BY DEF IInv, Agree
<1>1. /\ UNCHANGED inventory /\ UNCHANGED move /\ UNCHANGED barcode /\ UNCHANGED mounted
      /\ inLibrary' = [inLibrary EXCEPT ![d] = TRUE]
      /\ inbox' = [inbox EXCEPT ![d] = Tail(@)]
  <2>1. Head(inbox[d]).text = "Register"
    BY DEF Registration, Request, Message
  <2>2. Register(d, Head(inbox[d])) /\ UNCHANGED inventory /\ UNCHANGED move
    BY <2>1 DEF DriveHandles, LibraryLoad, LibraryUnload, MountState
  <2> QED
    BY <2>2 DEF Register
<1>2. inbox \in [Daemons -> Seq(Mail)] /\ inbox[d] \in Seq(Mail)
  BY <1>0, PlacesApart DEF TypeOK
<1>3. /\ inbox'[d] = Tail(inbox[d]) /\ inbox'[Lib] = inbox[Lib]
      /\ \A e \in Drives : e # d => inbox'[e] = inbox[e]
  BY <1>1, <1>2, PlacesApart
<1>4. \A e \in Drives : inLibrary'[e] = (inLibrary[e] \/ e = d)
  BY <1>0, <1>1 DEF TypeOK
<1>5. In(Tail(inbox[d])) \subseteq In(inbox[d]) /\ Single(Tail(inbox[d]), Mail \ {Registration})
  BY <1>0, <1>2, QueueTail DEF Boxes
<1>6. MoveTrue' /\ Fits' /\ Loaded'
  BY <1>0, <1>1, <1>4 DEF MoveTrue, Same, Busy, Carried, Fits, Loaded, inventory
<1>7. Access'
  BY <1>0, <1>1, <1>3 DEF Access, EjectComing, inventory
<1>8. LibraryBox'
  <2>1. \A x \in In(inbox[Lib]) \cap Answers : Busy' /\ After(x.text)'
    BY <1>0, <1>1, <1>3 DEF LibraryBox, Busy, After, Carried, AskedDrive, EjectComing, inventory
  <2> QED
    BY <1>0, <1>3, <2>1 DEF LibraryBox, Answers, Mail, Daemons, Texts, AnswerTexts, States
<1>9. Boxes'
  <2>1. Busy' = Busy /\ AskedDrive' = AskedDrive /\ Asked' = Asked /\ Before' = Before
    BY <1>1 DEF Busy, AskedDrive, Asked, Carried, Before, inventory, Request, Message
  <2>2. ASSUME NEW e \in Drives
        PROVE  /\ Single(inbox'[e], Mail \ {Registration})
               /\ \A x \in In(inbox'[e]) :
                    \/ x = Registration
                    \/ /\ Busy' /\ e = AskedDrive' /\ x = Asked' /\ Before'
                       /\ In(inbox'[Lib]) \cap Answers = {}
               /\ ~inLibrary'[e] => inbox'[e] # << >> /\ Head(inbox'[e]) = Registration
    <3>1. /\ Single(inbox[e], Mail \ {Registration})
          /\ \A x \in In(inbox[e]) :
               \/ x = Registration
               \/ Busy /\ e = AskedDrive /\ x = Asked /\ Before /\ In(inbox[Lib]) \cap Answers = {}
          /\ ~inLibrary[e] => inbox[e] # << >> /\ Head(inbox[e]) = Registration
      BY <1>0 DEF Boxes
    <3>2. CASE e = d
      BY <1>3, <1>4, <1>5, <2>1, <3>1, <3>2
    <3>3. CASE e # d
      BY <1>3, <1>4, <2>1, <3>1, <3>3
    <3> QED
      BY <3>2, <3>3
  <2> QED
    BY <2>2 DEF Boxes, Registration, Request, Message
<1> QED
  BY <1>6, <1>7, <1>8, <1>9 DEF Agree

\* "mount_state" is answered truly.
LEMMA MountStateAgrees ==
    ASSUME IInv, Agree, NEW d \in Drives, inbox[d] # << >>, Head(inbox[d]) # Registration,
           MountState(d, Head(inbox[d])), UNCHANGED inventory, UNCHANGED move
    PROVE  Agree'
<1>0. TypeOK /\ MoveTrue /\ Boxes /\ LibraryBox /\ Fits /\ Loaded /\ Access
  BY DEF IInv, Agree
<1>1. /\ \E t \in AnswerTexts : Reply(d, t) /\ (t = "Not occupied" <=> barcode[d] = None)
      /\ UNCHANGED drives /\ UNCHANGED inLibrary /\ Head(inbox[d]).text = "mount_state"
  <2>1. "Not occupied" \in AnswerTexts /\ "occupied" \in AnswerTexts
    BY DEF AnswerTexts, States
  <2>2. CASE barcode[d] = None
    BY <2>1, <2>2 DEF MountState, drives
  <2>3. CASE barcode[d] # None
    BY <2>1, <2>3 DEF MountState, drives
  <2> QED
    BY <2>2, <2>3
<1>2. Busy /\ d = AskedDrive /\ Head(inbox[d]) = Asked
  BY <1>0, OldestIs
<1>3. move.at \in {"src_state", "dst_state"}
  BY <1>1, <1>2, AskedIs
<1>4. PICK text \in AnswerTexts : Reply(d, text) /\ (text = "Not occupied" <=> barcode[d] = None)
  BY <1>1
<1>5. /\ Boxes' /\ Single(inbox'[Lib], Answers)
      /\ \A m \in In(inbox'[Lib]) \cap Answers : m.text = text
      /\ \A e \in Drives : EjectComing(e) => EjectComing(e)'
  BY <1>0, <1>1, <1>4, Replied
<1>6. MoveTrue' /\ Fits' /\ Loaded'
  BY <1>0, <1>1 DEF MoveTrue, Same, Busy, Carried, Fits, Loaded, inventory, drives
<1>7. Access'
  BY <1>0, <1>1, <1>5 DEF Access, inventory, drives
<1>8. Busy' /\ After(text)'
  BY <1>1, <1>2, <1>3, <1>4 DEF Busy, After, AskedDrive, drives
<1>9. LibraryBox'
  BY <1>5, <1>8 DEF LibraryBox, Answers, Mail, Daemons, Texts, AnswerTexts, States
<1> QED
  BY <1>5, <1>6, <1>7, <1>9 DEF Agree

\* "unload" and "set_empty" empty the mouth.
LEMMA LibraryUnloadAgrees ==
    ASSUME IInv, Agree, NEW d \in Drives, inbox[d] # << >>, Head(inbox[d]) # Registration,
           LibraryUnload(d, Head(inbox[d])), UNCHANGED inventory, UNCHANGED move
    PROVE  Agree'
<1>0. TypeOK /\ MoveTrue /\ Boxes /\ LibraryBox /\ Fits /\ Loaded /\ Access
  BY DEF IInv, Agree
<1>1. /\ Head(inbox[d]).text \in {"unload", "set_empty"}
      /\ Reply(d, "Unloaded OK") /\ UNCHANGED inLibrary
      /\ barcode' = [barcode EXCEPT ![d] = None] /\ mounted' = [mounted EXCEPT ![d] = FALSE]
  BY DEF LibraryUnload, MouthCleared
<1>2. Busy /\ d = AskedDrive /\ Head(inbox[d]) = Asked
  BY <1>0, OldestIs
<1>3. move.at \in {"unload", "emptied"}
  BY <1>1, <1>2, AskedIs
<1>4. d = move.src /\ move.src # move.dst
  BY <1>2, <1>3 DEF AskedDrive, IInv, MoveSound
<1>5. /\ \A e \in Drives : barcode'[e] = IF e = d THEN None ELSE barcode[e]
      /\ \A e \in Drives : mounted'[e] = (mounted[e] /\ e # d)
  BY <1>0, <1>1 DEF TypeOK
<1>6. "Unloaded OK" \in AnswerTexts
  BY DEF AnswerTexts
<1>7. /\ Boxes' /\ Single(inbox'[Lib], Answers)
      /\ \A m \in In(inbox'[Lib]) \cap Answers : m.text = "Unloaded OK"
      /\ \A e \in Drives : EjectComing(e) => EjectComing(e)'
  BY <1>0, <1>1, <1>6, Replied
<1>8. MoveTrue'
  BY <1>0, <1>2, <1>3, <1>4, <1>5 DEF MoveTrue, Same, Busy, inventory
<1>9. Fits' /\ Loaded'
  BY <1>0, <1>1, <1>5 DEF Fits, Loaded, inventory
<1>10. Access'
  BY <1>0, <1>3, <1>4, <1>5, <1>7 DEF Access, inventory
<1>11. Busy' /\ After("Unloaded OK")'
  BY <1>2, <1>3, <1>4, <1>5 DEF Busy, After
<1>12. LibraryBox'
  BY <1>7, <1>11 DEF LibraryBox, Answers, Mail, Daemons, Texts, AnswerTexts, States
<1> QED
  BY <1>7, <1>8, <1>9, <1>10, <1>12 DEF Agree

\* "lload" finds the mouth empty: the cartridge fits and is there, or it does not
\* and is not; one that came from a drive goes back into it.
LEMMA LibraryLoadAgrees ==
    ASSUME IInv, Agree, NEW d \in Drives, inbox[d] # << >>, Head(inbox[d]) # Registration,
           LibraryLoad(d, Head(inbox[d])), UNCHANGED inventory, UNCHANGED move
    PROVE  Agree'
<1>0. TypeOK /\ MoveTrue /\ Boxes /\ LibraryBox /\ Fits /\ Loaded /\ Access
  BY DEF IInv, Agree
<1>1. Head(inbox[d]).text = "lload"
  BY DEF LibraryLoad
<1>2. Busy /\ d = AskedDrive /\ Head(inbox[d]) = Asked /\ Before /\ inLibrary[d]
  BY <1>0, OldestIs
<1>3. move.at \in {"load", "restore"} /\ Head(inbox[d]).cart = Carried
  BY <1>1, <1>2, AskedIs
<1>4. d = IF move.at = "load" THEN move.dst ELSE move.src
  BY <1>2, <1>3 DEF AskedDrive
<1>5. barcode[d] = None
  BY <1>2, <1>3, <1>4 DEF Before
<1>6. /\ Carried # None /\ move.src # move.dst
      /\ move.at = "restore" => Carried = holds[d] /\ <<d, Carried>> \notin Unloadable
  BY <1>0, <1>3, <1>4 DEF MoveTrue, Fits, Carried, IInv, MoveSound
<1>7. Busy' /\ Carried' = Carried
  BY <1>2 DEF Busy, Carried, inventory
<1>8. CASE <<d, Carried>> \in Unloadable
  <2>1. Reply(d, "Load failed") /\ UNCHANGED drives
    BY <1>2, <1>3, <1>8 DEF LibraryLoad, LoadRefused
  <2>2. UNCHANGED inLibrary /\ UNCHANGED barcode /\ UNCHANGED mounted
    BY <2>1 DEF drives
  <2>3. "Load failed" \in AnswerTexts
    BY DEF AnswerTexts
  <2>4. /\ Boxes' /\ Single(inbox'[Lib], Answers)
        /\ \A m \in In(inbox'[Lib]) \cap Answers : m.text = "Load failed"
        /\ \A e \in Drives : EjectComing(e) => EjectComing(e)'
    BY <1>0, <2>1, <2>2, <2>3, Replied
  <2>5. MoveTrue' /\ Fits' /\ Loaded'
    BY <1>0, <1>7, <2>2 DEF MoveTrue, Same, Busy, Fits, Loaded, inventory
  <2>6. Access'
    BY <1>0, <2>2, <2>4 DEF Access, inventory
  <2>7. After("Load failed")'
    BY <1>3, <1>4, <1>5, <1>6, <1>8, <2>2 DEF After
  <2>8. LibraryBox'
    BY <1>7, <2>4, <2>7 DEF LibraryBox, Answers, Mail, Daemons, Texts, AnswerTexts, States
  <2> QED
    BY <2>4, <2>5, <2>6, <2>8 DEF Agree
<1>9. CASE <<d, Carried>> \notin Unloadable
  <2>1. /\ Reply(d, "Loaded OK") /\ UNCHANGED inLibrary
        /\ barcode' = [barcode EXCEPT ![d] = Carried] /\ mounted' = [mounted EXCEPT ![d] = TRUE]
    BY <1>2, <1>3, <1>5, <1>9 DEF LibraryLoad, MouthFree
  <2>2. /\ \A e \in Drives : barcode'[e] = IF e = d THEN Carried ELSE barcode[e]
        /\ \A e \in Drives : mounted'[e] = (mounted[e] \/ e = d)
    BY <1>0, <2>1 DEF TypeOK
  <2>3. "Loaded OK" \in AnswerTexts
    BY DEF AnswerTexts
  <2>4. /\ Boxes' /\ Single(inbox'[Lib], Answers)
        /\ \A m \in In(inbox'[Lib]) \cap Answers : m.text = "Loaded OK"
        /\ \A e \in Drives : EjectComing(e) => EjectComing(e)'
    BY <1>0, <2>1, <2>3, Replied
  <2>5. MoveTrue'
    BY <1>0, <1>3, <1>4, <1>6, <1>7, <2>2 DEF MoveTrue, Same, Busy, inventory
  <2>6. Fits'
    BY <1>0, <1>9, <2>2 DEF Fits, inventory
  <2>7. Loaded'
    BY <1>0, <1>2, <1>6, <2>1, <2>2, ZenonT(40) DEF Loaded
  <2>8. Access'
    BY <1>0, <2>2, <2>4 DEF Access, inventory
  <2>9. After("Loaded OK")'
    BY <1>3, <1>4, <1>7, <2>2 DEF After
  <2>10. LibraryBox'
    BY <1>7, <2>4, <2>9 DEF LibraryBox, Answers, Mail, Daemons, Texts, AnswerTexts, States
  <2> QED
    BY <2>4, <2>5, <2>6, <2>7, <2>8, <2>10 DEF Agree
<1> QED
  BY <1>8, <1>9

\* Whatever a drive reads.
LEMMA DriveHandlesAgrees ==
    ASSUME IInv, Agree, NEW d \in Drives, DriveHandles(d)
    PROVE  Agree'
<1>0. TypeOK /\ Boxes
  BY DEF IInv, Agree
<1>1. inbox[d] # << >> /\ UNCHANGED inventory /\ UNCHANGED move
  BY DEF DriveHandles
<1>2. CASE Head(inbox[d]) = Registration
  BY <1>1, <1>2, RegisterAgrees
<1>3. CASE Head(inbox[d]) # Registration
  <2>1. Head(inbox[d]) = Asked /\ Busy
    BY <1>0, <1>1, <1>3, OldestIs
  <2>2. Head(inbox[d]).text # "Register"
    BY <2>1, AskedIs
  <2>3. \/ LibraryLoad(d, Head(inbox[d])) \/ LibraryUnload(d, Head(inbox[d]))
        \/ MountState(d, Head(inbox[d]))
    BY <2>2 DEF DriveHandles, Register
  <2> QED
    BY <1>1, <1>3, <2>3, LibraryLoadAgrees, LibraryUnloadAgrees, MountStateAgrees
<1> QED
  BY <1>2, <1>3

-----------------------------------------------------------------------------

\* At first every drive waits for its registration and has nothing in its mouth.
LEMMA InitAgrees == Init => Agree
<1> SUFFICES ASSUME Init PROVE Agree
  OBVIOUS
<1>1. move = Idle /\ move.at = "idle" /\ ~Busy
  BY DEF Init, Idle, Busy, Waits
<1>2. /\ inbox[Lib] = << >>
      /\ \A d \in Drives : inbox[d] = <<Registration>>
  BY PlacesApart DEF Init, Registration
<1>3. /\ \A d \in Drives : barcode[d] = None /\ holds[d] = None /\ ~mounted[d] /\ access[d]
  BY PlacesApart DEF Init
<1>4. LibraryBox
  BY <1>2 DEF LibraryBox, Single, In
<1>5. Boxes
  <2>1. \A x : /\ Len(<<x>>) = 1 /\ Head(<<x>>) = x /\ <<x>> # << >> /\ In(<<x>>) = {x}
               /\ 1 .. Len(<<x>>) = {1}
    BY DEF In
  <2>2. \A x : Single(<<x>>, Mail \ {Registration})
    BY <2>1 DEF Single
  <2>3. ASSUME NEW d \in Drives
        PROVE  /\ Single(inbox[d], Mail \ {Registration})
               /\ \A m \in In(inbox[d]) : m = Registration
               /\ inbox[d] # << >> /\ Head(inbox[d]) = Registration
    <3>1. inbox[d] = <<Registration>>
      BY <1>2
    <3> QED
      BY <2>1, <2>2, <3>1
  <2> QED
    BY <2>3 DEF Boxes
<1>6. MoveTrue /\ Fits /\ Loaded /\ Access
  BY <1>1, <1>3 DEF MoveTrue, Same, Fits, Loaded, Access
<1> QED
  BY <1>4, <1>5, <1>6 DEF Agree

\* Every step in which nothing unforeseen happens keeps the library and the drives
\* in agreement.
LEMMA StepAgrees == IInv /\ Agree /\ Untroubled' /\ Next => Agree'
<1> SUFFICES ASSUME IInv, Agree, Untroubled', Next PROVE Agree'
  OBVIOUS
<1>0. TypeOK
  BY DEF IInv
<1>1. CASE MoveStarts
  <2>1. CASE \E src, dst \in Ports : MoveSlotToSlot(src, dst)
    BY <2>1, SlotToSlotAgrees
  <2>2. CASE \E src \in Ports, dst \in Drives : MoveSlotToDrive(src, dst)
    <3>1. PICK src \in Ports, dst \in Drives : MoveSlotToDrive(src, dst)
      BY <2>2
    <3>2. src \in Elements /\ dst \in Elements
      BY PlacesApart
    <3> QED
      BY <3>1, <3>2, AskAgrees
  <2>3. CASE \E src \in Drives, dst \in Elements : MoveFromDrive(src, dst)
    <3>1. PICK src \in Drives, dst \in Elements : MoveFromDrive(src, dst)
      BY <2>3
    <3>2. src \in Elements
      BY PlacesApart
    <3> QED
      BY <3>1, <3>2, AskAgrees
  <2> QED
    BY <1>1, <2>1, <2>2, <2>3 DEF MoveStarts
<1>2. CASE AnswerTaken
  BY <1>2, SourceKnownAgrees, DestinationKnownAgrees, SourceUnloadedAgrees,
     SourceEmptiedAgrees, DestinationLoadedAgrees, SourceRestoredAgrees DEF AnswerTaken
<1>3. CASE OpenClose \/ MessageTaken \/ OperatorSends
  BY <1>3, OpenCloseAgrees, MessageTakenAgrees, OperatorSendsAgrees
<1>4. CASE \E d \in Drives : DriveHandles(d) \/ HostUnloads(d) \/ DriveRestarts(d)
  BY <1>0, <1>4, DriveHandlesAgrees, HostUnloadsAgrees, NoRestart
<1>5. ~LibraryExits
  BY <1>0, NoRestart
<1>6. ~LibraryStarts
  BY DEF LibraryStarts, Agree, MoveTrue
<1> QED
  BY <1>1, <1>2, <1>3, <1>4, <1>5, <1>6 DEF Next

\* As long as every answer taken was the one asked for and no daemon restarted,
\* the library and its drives agree, at every step of every move, where the
\* cartridge is, which one message is on its way, and who has been told of an
\* eject.
THEOREM AgreeAlways == Spec => [](IInv /\ InventoryUnique /\ (Untroubled => Agree))
<1>1. Init => (Untroubled => Agree)
  BY InitAgrees
<1>2. IInv /\ (Untroubled => Agree) /\ [Next]_vars => (Untroubled => Agree)'
  <2> SUFFICES ASSUME IInv, Untroubled => Agree, [Next]_vars, Untroubled'
               PROVE  Agree'
    OBVIOUS
  <2>1. TypeOK
    BY DEF IInv
  <2>2. Agree
    BY <2>1, UntroubledBefore
  <2>3. CASE Next
    BY <2>2, <2>3, StepAgrees
  <2>4. CASE UNCHANGED vars
    <3>0. UNCHANGED <<holds, access, move, inbox, barcode, mounted, inLibrary>>
      BY <2>4 DEF vars
    <3>1. MoveTrue' /\ Fits' /\ Loaded' /\ Access'
      BY <2>2, <3>0 DEF Agree, MoveTrue, Fits, Loaded, Access, Same, Busy, Carried, EjectComing
    <3>2. Boxes'
      <4>1. Busy' = Busy /\ AskedDrive' = AskedDrive /\ Asked' = Asked /\ Before' = Before
        BY <3>0 DEF Busy, AskedDrive, Asked, Carried, Before, Request, Message
      <4> QED
        BY <2>2, <3>0, <4>1 DEF Agree, Boxes, Registration, Request, Message
    <3>3. LibraryBox'
      BY <2>2, <3>0 DEF Agree, LibraryBox, After, Busy, AskedDrive, Carried, EjectComing,
         Answers, Mail, Daemons, Texts, AnswerTexts, States
    <3> QED
      BY <3>1, <3>2, <3>3 DEF Agree
  <2> QED
    BY <2>3, <2>4
<1> QED
  BY <1>1, <1>2, Invariance, PTL DEF Spec

\* Between two moves each drive has in its mouth what the inventory of the library
\* says (move_cart() after check_tape_load() and check_tape_unload()).
THEOREM InventoryTrueHolds == Spec => []InventoryTrue
<1>1. (Untroubled => Agree) => InventoryTrue
  BY DEF InventoryTrue, Agree, MoveTrue, Same, Busy, Waits, Idle
<1> QED
  BY <1>1, AgreeAlways, PTL

\* Where the inventory has a cartridge that is mounted: in its drive, or in the
\* slot it is being loaded from, or unloaded to.
LEMMA Where ==
    ASSUME IInv, Agree, NEW d \in Drives, mounted[d]
    PROVE  /\ barcode[d] # None
           /\ \/ barcode[d] = holds[d]
              \/ /\ move.at = "emptied" /\ d = move.src /\ move.dst \in Ports
                 /\ barcode[d] = holds[move.dst]
              \/ /\ move.at = "load" /\ d = move.dst /\ move.src \in Ports
                 /\ barcode[d] = holds[move.src]
<1>1. barcode[d] # None
  BY DEF Agree, Loaded
<1>2. CASE Same(d)
  BY <1>1, <1>2 DEF Same
<1>3. CASE ~Same(d)
  <2>1. Busy /\ d \in {move.src, move.dst} /\ MoveTrue /\ MoveSound
    BY <1>3 DEF Agree, MoveTrue, IInv
  <2>2. move.at \notin {"src_state", "dst_state"}
    BY <1>3, <2>1 DEF MoveTrue, MoveSound
  <2>3. CASE move.at = "unload"
    BY <1>1, <1>3, <2>1, <2>3 DEF MoveTrue, Same
  <2>4. CASE move.at = "emptied"
    BY <1>1, <1>3, <2>1, <2>4, PlacesApart DEF MoveTrue, MoveSound
  <2>5. CASE move.at = "load"
    BY <1>1, <1>3, <2>1, <2>5, PlacesApart DEF MoveTrue, MoveSound, Same, Carried
  <2>6. CASE move.at = "restore"
    BY <1>1, <1>3, <2>1, <2>6 DEF MoveTrue, Same
  <2> QED
    BY <2>1, <2>2, <2>3, <2>4, <2>5, <2>6 DEF Busy, Waits
<1> QED
  BY <1>2, <1>3

\* A cartridge is mounted in one drive at most, and no second command finds it in a
\* slot to load it from while it is (MOVE MEDIUM, move_drive2drive()).
THEOREM MountedHereHolds == Spec => []MountedHere
<1>1. IInv /\ InventoryUnique /\ (Untroubled => Agree) => MountedHere
  <2> SUFFICES ASSUME IInv, InventoryUnique, Untroubled => Agree, Untroubled
               PROVE  MountedHere
    BY DEF MountedHere
  <2>1. IInv /\ Agree
    OBVIOUS
  <2>2. \A d \in Drives : mounted[d] =>
            /\ barcode[d] # None
            /\ \/ barcode[d] = holds[d]
               \/ /\ move.at = "emptied" /\ d = move.src /\ move.dst \in Ports
                  /\ barcode[d] = holds[move.dst]
               \/ /\ move.at = "load" /\ d = move.dst /\ move.src \in Ports
                  /\ barcode[d] = holds[move.src]
    BY <2>1, Where
  <2>3. MountedOnce
    BY <2>2, PlacesApart DEF MountedOnce, InventoryUnique
  <2>4. ASSUME NEW d \in Drives, NEW s \in Ports, mounted[d], holds[s] = barcode[d]
        PROVE  \/ move.at = "load" /\ move.src = s /\ move.dst = d
               \/ move.at = "emptied" /\ move.src = d /\ move.dst = s
    BY <2>2, <2>4, PlacesApart DEF InventoryUnique
  <2> QED
    BY <2>3, <2>4 DEF MountedHere
<1> QED
  BY <1>1, AgreeAlways, PTL

\* The picker is kept from a cartridge only while the tape is loaded or an eject
\* waits in the inbox of the library (LOAD UNLOAD, set_access_bit()).
THEOREM PickerToldHolds == Spec => []PickerTold
<1>1. (Untroubled => Agree) => PickerTold
  <2> SUFFICES ASSUME Agree, move = Idle, NEW d \in Drives, holds[d] # None, ~access[d]
               PROVE  \/ mounted[d]
                      \/ \E i \in 1 .. Len(inbox[Lib]) :
                            inbox[Lib][i].from = d /\ inbox[Lib][i].text = "eject"
    BY DEF PickerTold
  <2>1. mounted[d] \/ EjectComing(d)
    BY DEF Agree, Access, Idle
  <2> QED
    BY <2>1 DEF EjectComing, In
<1> QED
  BY <1>1, AgreeAlways, PTL

\* With answers matched and nobody restarted, the library never takes a cartridge
\* out of an element that holds none (move_cart() of a NULL medium).
THEOREM NeverNullHolds == Spec => []NeverNull
<1>1. (Untroubled => Agree) => NeverNull
  BY DEF NeverNull, Agree, MoveTrue
<1> QED
  BY <1>1, AgreeAlways, PTL
=============================================================================
