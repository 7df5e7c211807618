---------------------------- MODULE MCEncryption ----------------------------
(* Short keys over two bytes, one of them the byte of an array never set. *)
EXTENDS EncryptionProps

ByteSet == {0, 1}
KeySet  == {<<1>>, <<0>>, <<1, 0>>}
Kad(kind, bytes) == [kind |-> kind, bytes |-> bytes]
KadSet  == {Kad("none", <<>>), Kad("ukad", <<1>>), Kad("akad", <<1>>)}
EModes == {0, 1, 2}
DModes == {0, 2, 3}
UkadLimit == [lto |-> 1, stk |-> 1, e06 |-> 0]
AkadLimit == [lto |-> 1, stk |-> 0, e06 |-> 1]
=============================================================================
