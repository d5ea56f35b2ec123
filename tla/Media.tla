-------------------------------- MODULE Media --------------------------------
(***************************************************************************)
(* Files of messages: api/media.py.                                        *)
(*                                                                         *)
(* Cryptography is symbolic: a derived key is what it is derived from, a   *)
(* ciphertext is its keys and plaintext, a digest is what it digests.      *)
(* What may be missing is a set of at most one element; an exception is    *)
(* the empty result.                                                       *)
(***************************************************************************)
EXTENDS Naturals, Sequences

DEFAULT_MEDIA_HOST == "mmg.whatsapp.net"

\* _HKDF_INFO: stickers share the keys of images.
HkdfInfo(type) == IF type = "sticker" THEN "image" ELSE type

\* media_keys
MediaKeys(key, type) ==
  [part \in {"iv", "cipher_key", "mac_key"} |-> <<key, HkdfInfo(type), part>>]

Sha256(x) == <<"sha256", x>>
Hmac(key, iv, x) == <<"hmac", key, iv, x>>
AesCbc(key, iv, plain) == [key |-> key, iv |-> iv, plain |-> plain]

\* With other keys the padding is wrong or the result is garbage.
AesCbcDecrypt(c, key, iv) == IF c.key = key /\ c.iv = iv THEN c.plain ELSE "garbage"

\* encrypt_media; the key is fresh.
EncryptMedia(plain, type, key) ==
  LET k == MediaKeys(key, type)
      c == AesCbc(k["cipher_key"], k["iv"], plain)
      enc == [ciphertext |-> c, mac |-> Hmac(k["mac_key"], k["iv"], c)]
  IN  [enc |-> enc, mediaKey |-> key, fileSha256 |-> {Sha256(plain)},
       fileEncSha256 |-> {Sha256(enc)}]

\* Slip: the MAC is not looked at.
DecryptUnchecked(enc, key, type) ==
  LET k == MediaKeys(key, type)
  IN  {AesCbcDecrypt(enc.ciphertext, k["cipher_key"], k["iv"])}

\* decrypt_media
DecryptMedia(enc, key, type) ==
  LET k == MediaKeys(key, type)
  IN  IF enc.mac # Hmac(k["mac_key"], k["iv"], enc.ciphertext) THEN {}
      ELSE {AesCbcDecrypt(enc.ciphertext, k["cipher_key"], k["iv"])}

-----------------------------------------------------------------------------
\* A message has one field; a wrapper's field holds a message: the sequence of its fields,
\* the outermost first.
WRAPPERS == {"ephemeralMessage", "viewOnceMessage", "viewOnceMessageV2",
             "viewOnceMessageV2Extension", "documentWithCaptionMessage", "editedMessage"}
MEDIA_FIELDS == [imageMessage |-> "image", videoMessage |-> "video", audioMessage |-> "audio",
                 documentMessage |-> "document", stickerMessage |-> "image"]
MEDIA_MSG_FIELD == [image |-> "imageMessage", video |-> "videoMessage",
                    audio |-> "audioMessage", document |-> "documentMessage"]

\* unwrap_message: the first field that is not a wrapper.
UnwrapMessage(message) ==
  message[CHOOSE i \in 1..Len(message) :
            /\ message[i].field \notin WRAPPERS
            /\ \A j \in 1..(i - 1) : message[j].field \in WRAPPERS]

\* extract_media_info, with the type the field stands for.
ExtractMediaInfo(message) ==
  LET m == UnwrapMessage(message)
  IN  IF m.field \in DOMAIN MEDIA_FIELDS
      THEN {[m EXCEPT !.field = MEDIA_FIELDS[m.field]]} ELSE {}

\* url_from_direct_path, else the url of the message.
DownloadUrl(info) ==
  IF info.directPath # {} THEN {<<DEFAULT_MEDIA_HOST, p>> : p \in info.directPath}
  ELSE info.url

Mismatch(digests, x) == \E d \in digests : d # Sha256(x)

\* download_encrypted under download_media: enc is the body the host gave.
DownloadEncrypted(info, enc) ==
  IF Mismatch(info.fileEncSha256, enc) THEN {}
  ELSE DecryptMedia(enc, info.mediaKey, info.field)
DownloadMedia(info, enc) ==
  {data \in DownloadEncrypted(info, enc) : ~Mismatch(info.fileSha256, data)}

\* parse_media_conn: the hosts of the answer, or the default one.
ParseMediaConn(hosts) == IF hosts = <<>> THEN <<DEFAULT_MEDIA_HOST>> ELSE hosts

\* build_media_message, from what the host answered and what was encrypted.
BuildMediaMessage(type, upload, e) ==
  <<[field |-> MEDIA_MSG_FIELD[type], url |-> upload.url, directPath |-> upload.directPath,
     mediaKey |-> e.mediaKey, fileSha256 |-> e.fileSha256, fileEncSha256 |-> e.fileEncSha256]>>

=============================================================================
