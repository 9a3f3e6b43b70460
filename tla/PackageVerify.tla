----------------------------- MODULE PackageVerify -----------------------------
(* signature.service answering "is this package genuine?": a package comes in as    *)
(* chunks through the one transfer the server keeps, or as a path it reads itself.    *)
(* Several clients talk to the server at once, the file behind a path may change      *)
(* between two requests, and the certificate database is replaced or runs out         *)
(* between the first chunk and the verdict.                                          *)
(*                                                                                *)
(* A package is its head, with the manifest and what signs it, and its payload.  A    *)
(* manifest is known by the payload it commits to, a signature by the manifest it     *)
(* covers, a certificate by its issuer.  Digests are injective.                      *)
EXTENDS Integers, Sequences, FiniteSets

CONSTANTS
  Client,        \* callers with package.verify
  Packages,      \* packages clients have at hand, genuine or not
  CertificateIssuer, \* issuers of developer certificates
  MaxReload,     \* database replacements, at most
  MaxSwap        \* changes of the file, at most

(* What clients send is a head and a payload.                                        *)
ASSUME PackagesAssumption == \A p \in Packages : p = [head |-> p.head, payload |-> p.payload]

VARIABLES
  database,      \* the active database, NoDatabase without one
  transfer,      \* the active transfer, NoTransfer without one
  file,          \* the package at the path
  uses,          \* what the clients of a behaviour use: "chunks" or "path"
  answer,        \* history: the last answer
  reloads,       \* database replacements so far
  swaps          \* changes of the file so far

verifyVars == <<database, transfer, file, uses, answer, reloads, swaps>>

Payload == {p.payload : p \in Packages} \cup {p.head.manifest : p \in Packages}
RequestIds == {1, 2}
NoDatabase == [loaded |-> FALSE, current |-> FALSE, usable |-> {}, revoked |-> {}]
NoTransfer == [active |-> FALSE, sender |-> "none", request |-> 0, expected |-> <<>>, bytes |-> <<>>]
Refused == [verified |-> FALSE, to |-> "none", request |-> 0, package |-> <<>>, from |-> {}, under |-> NoDatabase]

(* The chunks a package is sent in, and the package chunks make up.                 *)
Head_(p) == [kind |-> "head", head |-> p.head]
Tail_(p) == [kind |-> "payload", payload |-> p.payload]
Bytes(p) == <<Head_(p), Tail_(p)>>
Contents(bytes) == [i \in DOMAIN bytes |-> bytes[i].data]

(* is_current.                                                                     *)
IsCurrent(db) == db.loaded /\ db.current

(* issuer_public_key: a current database, a certificate not revoked, a usable        *)
(* issuer.                                                                          *)
IssuerPublicKey(db, head) ==
  IsCurrent(db) /\ head.manifest \notin db.revoked /\ head.issuer \in db.usable

(* parse_header, parse_tar_stream: the container is well formed and holds nothing    *)
(* but a manifest, its signature, a certificate and payload.                         *)
ParseTarStream(head) == head.shape

(* verify_payload_files: every file the manifest names is there with its digest, and  *)
(* no other one.                                                                    *)
VerifyPayloadFiles(p) == p.payload = p.head.manifest

(* verify_package_bytes.                                                            *)
VerifyPackageBytes(p, db) ==
  ParseTarStream(p.head) /\ IssuerPublicKey(db, p.head) /\ p.head.covers = p.head.manifest
    /\ VerifyPayloadFiles(p)

(* verify_package_metadata: everything but the digests of the payload files, which     *)
(* the signed manifest commits to.                                                   *)
VerifyPackageMetadata(p, db) ==
  ParseTarStream(p.head) /\ IssuerPublicKey(db, p.head) /\ p.head.covers = p.head.manifest

(* reply_verified, reply_error.                                                      *)
Verified(c, r, p, from) ==
  answer' = [verified |-> TRUE, to |-> c, request |-> r, package |-> p, from |-> from, under |-> database]
ReplyError == answer' = Refused

-------------------------------------------------------------------------------
(* VerifyBegin: a new transfer replaces the active one, whoever it belongs to.         *)
VerifyBegin(c, r, p) ==
  /\ IF IsCurrent(database)
     THEN transfer' = [active |-> TRUE, sender |-> c, request |-> r, expected |-> Bytes(p), bytes |-> <<>>]
     ELSE UNCHANGED transfer
  /\ ReplyError
  /\ UNCHANGED <<database, file, uses, reloads, swaps>>

(* (A mutant.) A chunk continues the transfer of whoever is active.                    *)
ChunkFits(c, r, offset) ==
  offset = Len(transfer.bytes) /\ Len(transfer.bytes) < Len(transfer.expected)

(* The conditions on a chunk: same sender, same request, the next offset, no excess.    *)
ChunkValid(c, r, offset) ==
  /\ transfer.sender = c
  /\ transfer.request = r
  /\ offset = Len(transfer.bytes)
  /\ Len(transfer.bytes) < Len(transfer.expected)

(* VerifyChunk: a chunk that does not continue the active transfer ends it.             *)
VerifyChunk(c, r, offset, data) ==
  /\ transfer.active
  /\ transfer' = IF ChunkValid(c, r, offset)
                 THEN [transfer EXCEPT !.bytes = Append(@, [data |-> data, by |-> <<c, r>>])]
                 ELSE NoTransfer
  /\ ReplyError
  /\ UNCHANGED <<database, file, uses, reloads, swaps>>

(* VerifyFinish: the transfer ends; complete, with the announced digest, it is judged.  *)
VerifyFinish(c, r) ==
  /\ transfer.active
  /\ transfer' = NoTransfer
  /\ LET p == [head |-> transfer.bytes[1].data.head, payload |-> transfer.bytes[2].data.payload]
         complete == /\ transfer.sender = c
                     /\ transfer.request = r
                     /\ Contents(transfer.bytes) = transfer.expected
     IN  IF complete /\ database.loaded /\ VerifyPackageBytes(p, database)
         THEN Verified(c, r, p, {transfer.bytes[i].by : i \in DOMAIN transfer.bytes})
         ELSE ReplyError
  /\ UNCHANGED <<database, file, uses, reloads, swaps>>

(* VerifyFile: the path is read once; whole, against the announced digest, or only       *)
(* its metadata.  The active transfer is left alone.                                    *)
VerifyFile(c, r, p, metadata) ==
  /\ IF /\ IsCurrent(database)
        /\ IF metadata THEN VerifyPackageMetadata(file, database)
           ELSE file = p /\ VerifyPackageBytes(file, database)
     THEN Verified(c, r, IF metadata THEN [file EXCEPT !.payload = file.head.manifest] ELSE file, {<<c, r>>})
     ELSE ReplyError
  /\ UNCHANGED <<database, transfer, file, uses, reloads, swaps>>

(* handle_update_notification: a newer database, with other issuers or revocations.      *)
Reload ==
  /\ reloads < MaxReload
  /\ reloads' = reloads + 1
  /\ database' \in [loaded : {TRUE}, current : {TRUE}, usable : SUBSET CertificateIssuer, revoked : SUBSET Payload]
  /\ ReplyError
  /\ UNCHANGED <<transfer, file, uses, swaps>>

(* The snapshots of the database run out.                                               *)
DatabaseExpires ==
  /\ database.current
  /\ database' = [database EXCEPT !.current = FALSE]
  /\ ReplyError
  /\ UNCHANGED <<transfer, file, uses, reloads, swaps>>

(* Someone writes the file.                                                             *)
Swap ==
  /\ uses = "path"
  /\ swaps < MaxSwap
  /\ swaps' = swaps + 1
  /\ file' \in Packages
  /\ ReplyError
  /\ UNCHANGED <<database, transfer, uses, reloads>>

VerifyInit ==
  /\ database = NoDatabase
  /\ transfer = NoTransfer
  /\ uses \in {"chunks", "path"}
  /\ IF uses = "path" THEN file \in Packages ELSE file = CHOOSE p \in Packages : TRUE
  /\ answer = Refused
  /\ reloads = 0
  /\ swaps = 0

ByChunks(c, r) ==
  /\ uses = "chunks"
  /\ \/ \E p \in Packages : VerifyBegin(c, r, p)
     \/ \E offset \in 0 .. 1, data \in UNION {{Head_(p), Tail_(p)} : p \in Packages} : VerifyChunk(c, r, offset, data)
     \/ VerifyFinish(c, r)

ByPath(c, r) ==
  /\ uses = "path"
  /\ \E metadata \in BOOLEAN, p \in Packages : VerifyFile(c, r, p, metadata)

VerifyNext ==
  \/ \E c \in Client, r \in RequestIds : ByChunks(c, r) \/ ByPath(c, r)
  \/ Reload \/ DatabaseExpires \/ Swap

VerifySpec == VerifyInit /\ [][VerifyNext]_verifyVars

(* A package is called genuine only to the client that sent every byte of it under the     *)
(* request that is answered, when its payload is what its signed manifest commits to, and   *)
(* under a database that was current and trusted its certificate at that moment             *)
(* (signature/src/main.rs:693, 717, 736, 762; database.rs:85).                             *)
VerdictsExact ==
  answer.verified =>
    /\ answer.from = {<<answer.to, answer.request>>}
    /\ answer.package.payload = answer.package.head.covers
    /\ answer.under.current
    /\ answer.package.head.issuer \in answer.under.usable
    /\ answer.package.head.manifest \notin answer.under.revoked
=============================================================================
