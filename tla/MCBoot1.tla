-------------------------------- MODULE MCBoot1 --------------------------------
(***************************************************************************)
(* The extraction tool on dumps of two pages of two SHA-1 blocks, with one  *)
(* spare byte behind each: the published vectors of both algorithms, and    *)
(* files that end inside of a page, between two, or at once.                *)
(***************************************************************************)
EXTENDS Boot1Extract

FromZero(s) == [n \in 0..(Len(s) - 1) |-> s[n + 1]]

AsBytes(values) == [n \in 1..Len(values) |-> BitsOf(values[n])]

(* Five words from the values of their halves.                              *)
AsState(values) == [n \in 0..4 |-> Halves(values[2 * n + 1], values[2 * n + 2])]

(* The vectors of util_aes.c, lines 9 to 25.                                *)
VectorKey == FromZero(AsBytes(<<43, 126, 21, 22, 40, 174, 210, 166, 171, 247, 21, 136, 9, 207, 79, 60>>))

VectorPlain == AsBytes(
  <<107, 193, 190, 226, 46, 64, 159, 150, 233, 61, 126, 17, 115, 147, 23, 42, 174, 45,
    138, 87, 30, 3, 172, 156, 158, 183, 111, 172, 69, 175, 142, 81, 48, 200, 28, 70, 163,
    92, 228, 17, 229, 251, 193, 25, 26, 10, 82, 239, 246, 159, 36, 69, 223, 79, 155, 23,
    173, 43, 65, 123, 230, 108, 55, 16>>)

VectorCipher == AsBytes(
  <<58, 215, 123, 180, 13, 122, 54, 96, 168, 158, 202, 243, 36, 102, 239, 151, 245, 211,
    213, 133, 3, 185, 105, 157, 231, 133, 137, 90, 150, 253, 186, 175, 67, 177, 205, 127,
    89, 142, 206, 35, 136, 27, 0, 227, 237, 3, 6, 136, 123, 12, 120, 94, 39, 232, 173, 63,
    130, 35, 32, 113, 4, 114, 93, 212>>)

(* The key that the tool holds.                                             *)
boot1_key == FromZero(AsBytes(<<146, 88, 167, 82, 100, 150, 13, 130, 103, 111, 144, 68, 86, 136, 42, 115>>))

(* The message of 56 letters of util_sha1.c, line 73, with its padding.     *)
Message == AsBytes(
  <<97, 98, 99, 100, 98, 99, 100, 101, 99, 100, 101, 102, 100, 101, 102, 103, 101, 102,
    103, 104, 102, 103, 104, 105, 103, 104, 105, 106, 104, 105, 106, 107, 105, 106, 107,
    108, 106, 107, 108, 109, 107, 108, 109, 110, 108, 109, 110, 111, 109, 110, 111, 112,
    110, 111, 112, 113, 128, 0, 0, 0, 0, 0, 0, 0, 0, 0, 0, 0, 0, 0, 0, 0, 0, 0, 0, 0, 0,
    0, 0, 0, 0, 0, 0, 0, 0, 0, 0, 0, 0, 0, 0, 0, 0, 0, 0, 0, 0, 0, 0, 0, 0, 0, 0, 0, 0, 0,
    0, 0, 0, 0, 0, 0, 0, 0, 0, 0, 0, 0, 0, 0, 0, 0, 0, 0, 0, 0, 1, 192>>)

(* The message twice, in CBC under boot1_key with no IV.                    *)
EncryptedMessages == AsBytes(
  <<195, 17, 254, 179, 87, 78, 20, 225, 242, 170, 81, 85, 10, 71, 0, 110, 77, 107, 123,
    233, 167, 17, 151, 134, 11, 74, 192, 116, 89, 54, 100, 243, 196, 14, 15, 35, 27, 223,
    189, 7, 117, 5, 202, 211, 74, 165, 252, 186, 160, 224, 4, 11, 137, 58, 32, 44, 41,
    156, 67, 32, 66, 89, 1, 69, 82, 192, 101, 198, 40, 254, 217, 173, 3, 127, 40, 230,
    133, 24, 237, 117, 1, 130, 125, 59, 138, 209, 107, 253, 129, 152, 238, 224, 212, 229,
    110, 232, 39, 124, 75, 4, 41, 207, 229, 206, 134, 79, 4, 199, 206, 202, 14, 144, 66,
    76, 39, 185, 146, 182, 226, 24, 208, 177, 170, 60, 164, 251, 176, 128, 252, 141, 219,
    228, 199, 30, 53, 3, 220, 114, 222, 139, 67, 156, 188, 2, 22, 235, 125, 11, 120, 201,
    222, 201, 254, 49, 29, 182, 213, 235, 189, 74, 156, 44, 16, 140, 135, 187, 39, 241,
    223, 200, 16, 1, 229, 30, 242, 80, 68, 168, 1, 131, 252, 107, 198, 28, 162, 71, 107,
    187, 68, 179, 217, 67, 117, 65, 194, 152, 148, 103, 2, 120, 67, 118, 203, 239, 206,
    250, 65, 222, 8, 142, 204, 139, 154, 86, 171, 50, 22, 117, 15, 154, 4, 132, 67, 111,
    247, 183, 124, 8, 3, 185, 34, 67, 217, 173, 49, 239, 232, 118, 96, 245, 94, 9, 233, 8,
    126, 245, 97, 220, 210, 140, 170, 220, 121, 145, 120, 109>>)

InDump(ciphertext) ==
  SubSeq(ciphertext, 1, 128) \o <<0..7>> \o SubSeq(ciphertext, 129, 256) \o <<0..7>>

AsPages(text) == <<FromZero(SubSeq(text, 1, 128)), FromZero(SubSeq(text, 129, 256))>>

(* The ciphertext of the AES vectors four times; what CBC adds to a block   *)
(* is the one before.                                                       *)
VectorText == VectorCipher \o VectorCipher \o VectorCipher \o VectorCipher

VectorPages ==
  AsPages([n \in 1..256 |->
    Xor(VectorPlain[((n - 1) % 64) + 1], IF n <= 16 THEN {} ELSE VectorText[n - 16])])

AsHashes(h) == <<FromZero(<<AsState(h[1]), AsState(h[2])>>),
                 FromZero(<<AsState(h[3]), AsState(h[4])>>)>>

VectorDump ==
  [key |-> VectorKey, bytes |-> InDump(VectorText), pages |-> VectorPages,
   hashes |-> AsHashes(<<
     <<\h58F2, \hBEC6, \h290C, \h9FE5, \h1004, \h42AF, \h1C45, \h6E7F, \h9173, \h2301>>,
     <<\hF211, \h6949, \hD7C6, \h6B86, \hD4B5, \hE71B, \h41A9, \h3BBA, \hD9CD, \hF17F>>,
     <<\hEBB9, \h6030, \h0078, \h4E45, \h7B84, \h494C, \h9DFB, \h5126, \h1E9F, \h3FDE>>,
     <<\h8077, \h0498, \h4777, \h24A2, \h5BBE, \hBDB0, \h9499, \hFE62, \h0071, \hB66D>>>>)]

(* The second hash is that of util_sha1.c, line 74.                         *)
MessageDump(length) ==
  [key |-> boot1_key, bytes |-> SubSeq(InDump(EncryptedMessages), 1, length),
   pages |-> AsPages(Message \o Message),
   hashes |-> AsHashes(<<
     <<\hF428, \h6818, \hC37B, \h27AE, \h0408, \hF581, \h8467, \h7148, \h4A56, \h6572>>,
     <<\h8498, \h3E44, \h1C3B, \hD26E, \hBAAE, \h4AA1, \hF951, \h29E5, \hE546, \h70F1>>,
     <<\h3A00, \h7EFD, \h32E0, \hC487, \h6E41, \h1E04, \h780B, \h399E, \hC37B, \h8D45>>,
     <<\h0444, \h6773, \h1334, \h5179, \hFBCF, \h6886, \h5A70, \h4B49, \hC08D, \h6380>>>>)]

MCDumps == {VectorDump} \cup {MessageDump(length) : length \in {0, 129, 150, 257}}

=============================================================================
