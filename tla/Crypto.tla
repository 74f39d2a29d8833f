------------------------------- MODULE Crypto --------------------------------
(***************************************************************************)
(* The signature functions of the crypto package, the VM imports that      *)
(* expose them, and the contract's side of those imports.  Byte strings    *)
(* are their lengths and what they mean.  The curves are external: a       *)
(* secp256k1 signature r over a hash belongs to two keys, one per recovery *)
(* parameter; an ed25519 signature to one message and one key.  A result   *)
(* is "true", "false" or the name of an error.  The contract crypto-verify *)
(* on top of them, with its Ethereum formats, is the second part.          *)
(***************************************************************************)
EXTENDS Integers, SequencesExt, CallInput

CONSTANTS HashLength, SignatureLength, CompressedLength, UncompressedLength, EddsaKeyLength,
          MAX_LENGTH_ED25519_MESSAGE, MAX_COUNT_ED25519_BATCH, SectionOverhead

(* The key that r over the hash recovers to with a parameter; a high S is    *)
(* the low one with the other parameter (external).                          *)
Point(hash, sig, param) == <<hash.id, sig.r, IF sig.high THEN 1 - param ELSE param>>

(* verify_digest takes low S only (external).                                *)
VerifyDigest(hash, sig, key) ==
  ~sig.high /\ \E param \in 0 .. 1 : key.point = Point(hash, sig, param)

normalize_s(sig) == [sig EXCEPT !.high = FALSE]

check_pubkey(key) ==
  CASE key.len = 0             -> FALSE
    [] key.tag \in {2, 3}      -> key.len = CompressedLength
    [] key.tag = 4             -> key.len = UncompressedLength
    [] OTHER                   -> FALSE

secp256k1_verify(hash, sig, key) ==
  CASE hash.len # HashLength      -> "InvalidHashFormat"
    [] sig.len # SignatureLength  -> "InvalidSignatureFormat"
    [] ~check_pubkey(key)         -> "InvalidPubkeyFormat"
    [] ~sig.parses \/ ~key.parses -> "GenericErr"
    [] VerifyDigest(hash, normalize_s(sig), key) -> "true"
    [] OTHER                      -> "false"

(* The error, or "ok"; the key then is RecoveredKey.                         *)
secp256k1_recover_pubkey(hash, sig, param) ==
  CASE hash.len # HashLength      -> "InvalidHashFormat"
    [] sig.len # SignatureLength  -> "InvalidSignatureFormat"
    [] param \notin 0 .. 1        -> "InvalidRecoveryParam"
    [] ~sig.parses                -> "GenericErr"
    [] OTHER                      -> "ok"

(* to_encoded_point(false): the uncompressed form, where the comment on the  *)
(* function promises the compressed one.                                     *)
RecoveredKey(hash, sig, param) ==
  [tag |-> 4, len |-> UncompressedLength, parses |-> TRUE, point |-> Point(hash, sig, param)]

EddsaValid(message, sig, key) == sig.of = <<message, key.id>>

ed25519_verify(message, sig, key) ==
  CASE sig.len # SignatureLength -> "InvalidSignatureFormat"
    [] key.len # EddsaKeyLength  -> "InvalidPubkeyFormat"
    [] EddsaValid(message, sig, key) -> "true"
    [] OTHER                     -> "false"

Replicate(list, n) == IF Len(list) = 1 THEN [i \in 1 .. n |-> list[1]] ELSE list

(* Structural checks, replication, then the elements in order: the first     *)
(* one that is malformed decides.                                            *)
ed25519_batch_verify(messages, sigs, keys) ==
  LET m == Len(messages)
      s == Len(sigs)
      k == Len(keys)
      all_messages == IF m # s /\ s = k THEN Replicate(messages, s) ELSE messages
      all_keys == IF k # s /\ m = s THEN Replicate(keys, m) ELSE keys
      bad(i) == sigs[i].len # SignatureLength \/ all_keys[i].len # EddsaKeyLength
      first == CHOOSE i \in 1 .. s : bad(i) /\ \A j \in 1 .. i - 1 : ~bad(j)
  IN  IF ~((m = s /\ m = k) \/ (m = 1 /\ s = k) \/ (k = 1 /\ m = s)) THEN "BatchErr"
      ELSE IF \E i \in 1 .. s : bad(i)
           THEN IF sigs[first].len # SignatureLength
                THEN "InvalidSignatureFormat" ELSE "InvalidPubkeyFormat"
      ELSE IF \A i \in 1 .. s : EddsaValid(all_messages[i], sigs[i], all_keys[i])
           THEN "true" ELSE "false"
------------------------------------------------------------------------------
(* The VM imports: regions are read up to a limit, an error becomes its      *)
(* code, one the function cannot return is a panic.                          *)
Answers == {"true", "false", "ok"}

CryptoError == {"BatchErr", "GenericErr", "InvalidHashFormat", "InvalidPubkeyFormat",
                "InvalidSignatureFormat", "InvalidRecoveryParam"}

ErrorCode[result \in Answers \cup CryptoError] ==
  CASE result = "true" \/ result = "ok"     -> 0
    [] result = "false"                     -> 1
    [] result = "InvalidHashFormat"         -> 3
    [] result = "InvalidSignatureFormat"    -> 4
    [] result = "InvalidPubkeyFormat"       -> 5
    [] result = "InvalidRecoveryParam"      -> 6
    [] result = "BatchErr"                  -> 7
    [] result = "GenericErr"                -> 10

Aborted == 98    \* a VmError: the region is too long, the call ends
VmPanic == 99    \* "Error must not happen for this call"

AnswerCode(result, errors) == IF result \in Answers \cup errors THEN ErrorCode[result] ELSE VmPanic

do_secp256k1_verify(hash, sig, key) ==
  IF hash.len > HashLength \/ sig.len > SignatureLength \/ key.len > UncompressedLength
  THEN Aborted
  ELSE AnswerCode(secp256k1_verify(hash, sig, key),
                  {"InvalidHashFormat", "InvalidPubkeyFormat", "InvalidSignatureFormat", "GenericErr"})

(* The code of the high half; the low half is the region of RecoveredKey.    *)
do_secp256k1_recover_pubkey(hash, sig, param) ==
  IF hash.len > HashLength \/ sig.len > SignatureLength THEN Aborted
  ELSE AnswerCode(secp256k1_recover_pubkey(hash, sig, param),
                  {"InvalidHashFormat", "InvalidSignatureFormat", "InvalidRecoveryParam", "GenericErr"})

(* A message is as long as its number says.                                  *)
do_ed25519_verify(message, sig, key) ==
  IF \/ message > MAX_LENGTH_ED25519_MESSAGE \/ sig.len > SignatureLength
     \/ key.len > EddsaKeyLength
  THEN Aborted
  ELSE AnswerCode(ed25519_verify(message, sig, key),
                  {"InvalidPubkeyFormat", "InvalidSignatureFormat", "GenericErr"})

Encoded(lengths) == FoldLeft(LAMBDA n, l : n + l + SectionOverhead, 0, lengths)

Fits(lengths, limit) == Encoded(lengths) <= (limit + SectionOverhead) * MAX_COUNT_ED25519_BATCH

Lengths(list) == [i \in DOMAIN list |-> list[i].len]

(* The limits are those of the whole encoded lists.                          *)
do_ed25519_batch_verify(messages, sigs, keys) ==
  IF /\ Fits(messages, MAX_LENGTH_ED25519_MESSAGE)
     /\ Fits(Lengths(sigs), SignatureLength)
     /\ Fits(Lengths(keys), EddsaKeyLength)
  THEN AnswerCode(ed25519_batch_verify(messages, sigs, keys),
                  {"BatchErr", "InvalidPubkeyFormat", "InvalidSignatureFormat", "GenericErr"})
  ELSE Aborted

------------------------------------------------------------------------------
(* The contract's side: ExternalApi turns the code back into a result.       *)
FromCode(code, errors, panics) ==
  CASE code = 0 -> "true"
    [] code = 1 -> "false"
    [] code \in panics -> "panic"
    [] \E error \in errors : ErrorCode[error] = code -> CHOOSE error \in errors : ErrorCode[error] = code
    [] OTHER -> "UnknownErr"

ApiSecp256k1Verify(code) ==
  FromCode(code, {"InvalidHashFormat", "InvalidSignatureFormat", "InvalidPubkeyFormat", "GenericErr"}, {2})

ApiRecoverPubkey(code) ==
  IF code = 0 THEN "ok"
  ELSE FromCode(code, {"InvalidHashFormat", "InvalidSignatureFormat", "InvalidRecoveryParam"}, {2})

(* ed25519_verify and ed25519_batch_verify.                                  *)
ApiEd25519(code) ==
  FromCode(code, {"InvalidSignatureFormat", "InvalidPubkeyFormat", "GenericErr"}, {2, 3})

(* The same functions called natively, through MockApi: From<CryptoError>,   *)
(* whose errors have the names of the originals.                             *)
VerificationError(result) == result

(* A generic error is unknown_err(10); two errors are panics.                *)
RecoverPubkeyError(result) ==
  CASE result = "GenericErr" -> "UnknownErr"
    [] result \in {"InvalidPubkeyFormat", "BatchErr"} -> "panic"
    [] OTHER -> result

------------------------------------------------------------------------------
(* Calls.                                                                    *)
Hash == [len : 1 .. HashLength + 1, id : {1}]
EcdsaSignature == [len : 1 .. SignatureLength + 1, r : {1}, high : BOOLEAN, parses : BOOLEAN]
EcdsaKey == [tag : {2, 4, 5}, len : 0 .. UncompressedLength + 1, parses : BOOLEAN,
             point : {<<1, 1, 0>>, <<1, 1, 1>>, <<2, 1, 0>>}]
Message == 1 .. MAX_LENGTH_ED25519_MESSAGE + 1
EddsaSignature == [len : {SignatureLength, SignatureLength - 1}, of : Message \X (1 .. 2)]
EddsaKey == [len : {EddsaKeyLength, EddsaKeyLength + 1}, id : 1 .. 2]

Lists(elements) == {<<>>} \cup {<<e>> : e \in elements} \cup elements \X elements

CryptoCalls ==
       [type : {"secp256k1"}, hash : Hash, sig : EcdsaSignature, key : EcdsaKey, param : 0 .. 2]
  \cup [type : {"ed25519"}, messages : Lists(Message), keys : Lists(EddsaKey),
        sigs : Lists({s \in EddsaSignature : s.len = SignatureLength \/ s.of = <<1, 1>>})]

CryptoNext == Provide(CryptoCalls)

(* Whatever a contract passes to the signature functions, it gets the same   *)
(* answer from the VM, through the imports and their numeric codes, as from  *)
(* a native call; no code is a panic on either side.  Two differences: the   *)
(* VM ends the call when a region is too long, and a mismatch in a batch is  *)
(* an unknown error to a contract, BatchErr natively (CryptoError::code,     *)
(* ExternalApi).                                                             *)
VmAnswersAsNative ==
  /\ Is("secp256k1") =>
       LET verify == do_secp256k1_verify(input.hash, input.sig, input.key)
           recover == do_secp256k1_recover_pubkey(input.hash, input.sig, input.param)
       IN  /\ verify # Aborted =>
                ApiSecp256k1Verify(verify) =
                  VerificationError(secp256k1_verify(input.hash, input.sig, input.key))
           /\ recover # Aborted =>
                ApiRecoverPubkey(recover) =
                  RecoverPubkeyError(secp256k1_recover_pubkey(input.hash, input.sig, input.param))
  /\ Is("ed25519") =>
       LET batch == do_ed25519_batch_verify(input.messages, input.sigs, input.keys)
           native == VerificationError(ed25519_batch_verify(input.messages, input.sigs, input.keys))
       IN  batch # Aborted =>
             ApiEd25519(batch) = IF native = "BatchErr" THEN "UnknownErr" ELSE native
  /\ Is("ed25519") /\ Len(input.messages) = 1 /\ Len(input.sigs) = 1 /\ Len(input.keys) = 1 =>
       LET verify == do_ed25519_verify(input.messages[1], input.sigs[1], input.keys[1])
       IN  verify # Aborted =>
             ApiEd25519(verify) =
               VerificationError(ed25519_verify(input.messages[1], input.sigs[1], input.keys[1]))

(* "Returns the recovered pubkey in compressed form, which can be used in    *)
(* secp256k1_verify directly" (secp256k1.rs:76-77).  Of this the second half *)
(* holds: the signature a key was recovered from verifies with it, also one  *)
(* with a high S (secp256k1_recover_pubkey, normalize_s).                    *)
RecoveredKeyVerifies ==
  Is("secp256k1") =>
    (secp256k1_recover_pubkey(input.hash, input.sig, input.param) = "ok" =>
       secp256k1_verify(input.hash, input.sig, RecoveredKey(input.hash, input.sig, input.param)) = "true")

(* The first half of that sentence: a recovered key has the compressed form. *)
(* The code encodes the point uncompressed (secp256k1.rs:100), as the        *)
(* contracts that hash it to an address need it.                             *)
RecoveredKeyIsCompressed ==
  Is("secp256k1") =>
    (secp256k1_recover_pubkey(input.hash, input.sig, input.param) = "ok" =>
       RecoveredKey(input.hash, input.sig, input.param).len = CompressedLength)

CryptoSpec == NoInput /\ [][CryptoNext]_input

------------------------------------------------------------------------------
(***************************************************************************)
(* The crypto-verify contract: queries that hash a message, take an        *)
(* Ethereum signature apart and check it with the signature functions.     *)
(* The contract is compiled with overflow checks, so arithmetic that       *)
(* overflows is a panic.  An address is the key it is the hash of.         *)
(***************************************************************************)

CONSTANTS VLimit,      \* 2^64, bound of v and of the chain id
          WordLength   \* 32, bytes of r and of s

ASSUME VAssumption == VLimit \in Nat

NoParam == -1   \* an error
Panics == -2

get_recovery_param(v) == CASE v = 27 -> 0 [] v = 28 -> 1 [] OTHER -> NoParam

get_recovery_param_with_chain_id(v, chain_id) ==
  LET recovery == v - chain_id * 2 - 35
  IN  IF chain_id * 2 >= VLimit \/ recovery < 0 THEN Panics
      ELSE IF recovery \in 0 .. 1 THEN recovery ELSE NoParam

(* The address, here the key, of an uncompressed public key.                 *)
ethereum_address_raw(key) ==
  IF key.len = UncompressedLength /\ key.tag = 4 THEN <<key.point>> ELSE <<>>

(* What query_verify_ethereum_text and verify_transaction have in common:    *)
(* recover the key, compare its address, verify the signature once more.     *)
VerifySigner(hash, rs, param, signer) ==
  LET error == secp256k1_recover_pubkey(hash, rs, param)
      key == RecoveredKey(hash, rs, param)
  IN  IF error # "ok" THEN RecoverPubkeyError(error)
      ELSE IF ethereum_address_raw(key) = <<>> THEN "GenericErr"
      ELSE IF ethereum_address_raw(key) # <<signer>> THEN "false"
      ELSE secp256k1_verify(hash, rs, key)

(* An address in hex, with what can be wrong with it; its key otherwise.     *)
decode_address(address) ==
  IF address.len = 42 /\ address.prefixed /\ address.hex THEN <<address.key>> ELSE <<>>

(* The digest of an envelope with the length and the text, and the last byte *)
(* of the signature, v, taken off.                                           *)
query_verify_ethereum_text(hash, rs, v, address) ==
  IF decode_address(address) = <<>> \/ get_recovery_param(v) = NoParam THEN "GenericErr"
  ELSE VerifySigner(hash, rs, get_recovery_param(v), decode_address(address)[1])

Zeros(n) == [i \in 1 .. n |-> 0]

(* Left pads r and s; one that is longer than a word is a panic.             *)
Padded(r, s) == Zeros(WordLength - Len(r)) \o r \o Zeros(WordLength - Len(s)) \o s

PadPanics(r, s) == Len(r) > WordLength \/ Len(s) > WordLength

(* A seeded defect: the chain id is not signed.                              *)
serialize_unsigned_without_chain(tx) ==
  <<tx.nonce, tx.gas_price, tx.gas_limit, tx.to, tx.value, tx.data, 0>>

(* The list that is hashed; its two last elements are always empty.          *)
serialize_unsigned_transaction(tx) ==
  <<tx.nonce, tx.gas_price, tx.gas_limit, tx.to, tx.value, tx.data, tx.chain_id>>

(* A digest is as long as a hash and differs for different inputs (external).*)
Digest(bytes) == [len |-> HashLength, id |-> bytes]

(* r and s are padded: shorter ones become a signature of the right length.  *)
verify_transaction(signer, tx, sig, v) ==
  LET recovery == get_recovery_param_with_chain_id(v, tx.chain_id)
      rs == [sig EXCEPT !.len = SignatureLength]
  IN  CASE sig.len > SignatureLength -> "panic"
        [] recovery = Panics  -> "panic"
        [] recovery = NoParam -> "GenericErr"
        [] OTHER -> VerifySigner(Digest(serialize_unsigned_transaction(tx)), rs, recovery, signer)

query_verify_ethereum_transaction(from, to, tx, sig, v) ==
  IF decode_address(from) = <<>> \/ decode_address(to) = <<>> THEN "GenericErr"
  ELSE verify_transaction(decode_address(from)[1], [tx EXCEPT !.to = decode_address(to)[1]], sig, v)

query_verify_cosmos(message, sig, key) ==
  VerificationError(secp256k1_verify(Digest(message), sig, key))

query_verify_tendermint(message, sig, key) == VerificationError(ed25519_verify(message, sig, key))

query_verify_tendermint_batch(messages, sigs, keys) ==
  VerificationError(ed25519_batch_verify(messages, sigs, keys))

crypto_query(msg) ==
  CASE msg.query = "VerifyCosmosSignature" ->
         query_verify_cosmos(msg.message, msg.signature, msg.public_key)
    [] msg.query = "VerifyEthereumText" ->
         query_verify_ethereum_text(Digest(msg.message), msg.signature, msg.v, msg.signer_address)
    [] msg.query = "VerifyEthereumTransaction" ->
         query_verify_ethereum_transaction(msg.from, msg.to, msg.tx, msg.signature, msg.v)
    [] msg.query = "VerifyTendermintSignature" ->
         query_verify_tendermint(msg.message, msg.signature, msg.public_key)
    [] msg.query = "VerifyTendermintBatch" ->
         query_verify_tendermint_batch(msg.messages, msg.signatures, msg.public_keys)

------------------------------------------------------------------------------
ByteDigits(bytes) == FoldLeft(LAMBDA n, b : n * 2 + b, 0, bytes)

Transaction == [to : 0 .. 1, nonce : 0 .. 1, gas_limit : 0 .. 1, gas_price : 0 .. 1,
                value : 0 .. 1, data : 0 .. 1, chain_id : 0 .. 1]

(* The transactions that are signed have all their fields alike but for the  *)
(* chain; those that are asked for differ from them in any of their fields.  *)
SignedTransaction ==
  {[to |-> x, nonce |-> x, gas_limit |-> x, gas_price |-> x, value |-> x, data |-> x, chain_id |-> c] :
     x, c \in 0 .. 1}

EthereumCalls ==
       [type : {"chain"}, v : 0 .. VLimit - 1, chain_id : 0 .. VLimit - 1]
  \cup [type : {"transaction"}, signed : SignedTransaction, asked : Transaction, v : 34 .. 38, high : BOOLEAN,
        len : {SignatureLength - 1, SignatureLength + 1},
        address : {[len |-> n, prefixed |-> p, hex |-> h, key |-> 0] : n \in 41 .. 42, p, h \in BOOLEAN}]
  \cup [type : {"pad"}, r : BoundedSeq({0, 1}, WordLength + 1), s : BoundedSeq({0, 1}, WordLength + 1)]

EthereumNext == Provide(EthereumCalls)

Address(key) == [len |-> 42, prefixed |-> TRUE, hex |-> TRUE, key |-> key]

(* A signature in Ethereum's format verifies exactly for the signer whose    *)
(* key it recovers to with the parameter in v: a matching address is never   *)
(* turned down by the second check.  What verifies for an Ethereum address   *)
(* verifies for its public key as a Cosmos signature, too                    *)
(* (query_verify_ethereum_text, query_verify_cosmos).                        *)
EthereumSignerIsRecovered ==
  Is("secp256k1") /\ input.hash.len = HashLength =>
    LET text == crypto_query([query |-> "VerifyEthereumText", message |-> input.hash.id,
                       signature |-> input.sig, v |-> 27 + input.param,
                       signer_address |-> Address(input.key.point)])
        cosmos == crypto_query([query |-> "VerifyCosmosSignature", message |-> input.hash.id,
                         signature |-> input.sig, public_key |-> input.key])
    IN  /\ text = "true" <=>
             /\ input.param \in 0 .. 1
             /\ input.sig.len = SignatureLength /\ input.sig.parses
             /\ input.key.point = Point(input.hash, input.sig, input.param)
        /\ text = "true" /\ check_pubkey(input.key) /\ input.key.parses => cosmos = "true"

(* A signature over one transaction verifies for that transaction, chain and *)
(* signer alone: with any other field, on any other chain or for any other   *)
(* address the answer is no or an error (query_verify_ethereum_transaction). *)
TransactionIsWhatWasSigned ==
  Is("transaction") =>
    LET sig == [len |-> input.len, r |-> 1, high |-> input.high, parses |-> TRUE]
        signer == Point(Digest(serialize_unsigned_transaction(input.signed)), sig, 0)
        answer == crypto_query([query |-> "VerifyEthereumTransaction",
                         from |-> [input.address EXCEPT !.key = signer],
                         to |-> Address(input.asked.to), tx |-> input.asked, signature |-> sig,
                         v |-> input.v])
    IN  answer = "true" <=>
          /\ input.asked = input.signed /\ input.v = 35 + 2 * input.signed.chain_id
          /\ input.address = Address(0) /\ input.len <= SignatureLength

(* A batch verifies exactly if each of its signatures does on its own, with  *)
(* a single message or key standing for all; and a list of one of each is    *)
(* the query for one signature (query_verify_tendermint_batch).              *)
BatchIsEverySignature ==
  Is("ed25519") =>
    LET Batch(messages, sigs, keys) ==
          crypto_query([query |-> "VerifyTendermintBatch", messages |-> messages,
                        signatures |-> sigs, public_keys |-> keys])
        Single(message, sig, key) ==
          crypto_query([query |-> "VerifyTendermintSignature", message |-> message,
                        signature |-> sig, public_key |-> key])
        at(list, i) == IF Len(list) = 1 THEN list[1] ELSE list[i]
        batch == Batch(input.messages, input.sigs, input.keys)
        n == Len(input.sigs)
        paired == Len(input.messages) \in {1, n} /\ Len(input.keys) \in {1, n}
    IN  /\ batch = "true" =>
             paired /\ \A i \in 1 .. n :
               Single(at(input.messages, i), input.sigs[i], at(input.keys, i)) = "true"
        /\ n > 0 /\ paired /\ (Len(input.messages) = n \/ Len(input.keys) = n) =>
             LET results == {Single(at(input.messages, i), input.sigs[i], at(input.keys, i)) :
                               i \in 1 .. n}
             IN  batch \in results /\ ("true" = batch <=> results = {"true"})

(* For all 64-bit v and chain ids the recovery parameter is the p with       *)
(* v = 2 * chain_id + 35 + p, and none when there is no such p: numbers that *)
(* overflow are never taken for a parameter                                  *)
(* (get_recovery_param_with_chain_id).                                       *)
RecoveryParamIsExact ==
  Is("chain") =>
    LET param == get_recovery_param_with_chain_id(input.v, input.chain_id)
    IN  \A p \in 0 .. 1 : param = p <=> input.v = 2 * input.chain_id + 35 + p

(* Padding to words does not change the numbers r and s, however short their *)
(* byte strings are (verify_transaction).                                    *)
PaddingKeepsNumbers ==
  Is("pad") /\ ~PadPanics(input.r, input.s) =>
    LET rs == Padded(input.r, input.s)
    IN  /\ Len(rs) = 2 * WordLength
        /\ ByteDigits(SubSeq(rs, 1, WordLength)) = ByteDigits(input.r)
        /\ ByteDigits(SubSeq(rs, WordLength + 1, 2 * WordLength)) = ByteDigits(input.s)

(* What a contract concludes from a signature is right: the key it recovers  *)
(* is the one that signed, of the signer, chain and fields it asks for, and  *)
(* a batch says of each signature what it says of itself (crypto package,    *)
(* crypto-verify contract).                                                  *)
SignaturesAreSound ==
  /\ RecoveredKeyVerifies /\ BatchIsEverySignature /\ EthereumSignerIsRecovered
  /\ TransactionIsWhatWasSigned /\ RecoveryParamIsExact /\ PaddingKeepsNumbers
==============================================================================
