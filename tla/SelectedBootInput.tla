--------------------------- MODULE SelectedBootInput ---------------------------
(***************************************************************************)
(* The records that pin the bytes of a boot                                *)
(* (src/src/selected_boot_input.rs): a selected image, the decoded payload *)
(* of it, a boot collection and two startup companions.  Each is parsed on *)
(* its own and names the others by digest, identity and path.              *)
(*                                                                         *)
(* A record text is a size, an ending and its lines in order: a key and a  *)
(* value each.  A path is its parts and its case; a content is a name that  *)
(* stands for its digest too, and its length.                              *)
(***************************************************************************)
EXTENDS Integers, Sequences, Checks

CONSTANTS
  MaxRecord,   \* MAX_SELECTED_RECORD_BYTES, and that of a payload record
  MaxSelectedImage,    \* MAX_SELECTED_IMAGE_BYTES
  MaxBootKc    \* MAX_SELECTED_BOOTKC_BYTES

ASSUME SelectedAssumption == {MaxRecord, MaxSelectedImage, MaxBootKc} \subseteq Nat

-----------------------------------------------------------------------------
(* Parsing *)

\* What a value must be, by the last word of its key.
ValueCheck(kind, value) ==
  IF CASE kind = "class" -> value # "not a class"
       [] kind = "sha256" -> value # "not a digest"
       [] kind = "path" -> value.parts # <<"not a path">>   \* valid_efi_path()
       [] kind = "bytes" -> value >= 0
    THEN "Ok" ELSE "InvalidRecord"

\* The lines of a record are these, and no more.
LinesCheck(record, header, fields) ==
  IF \/ record.size = 0 \/ record.size > MaxRecord \/ ~ record.ended
     \/ record.header # header \/ Len(record.lines) < Len(fields)
     \/ \E n \in DOMAIN fields : record.lines[n].key # fields[n].key
    THEN "InvalidRecord"
  ELSE FirstError([n \in DOMAIN fields |-> ValueCheck(fields[n].kind, record.lines[n].value)])

NoMoreLines(record, fields) ==
  IF Len(record.lines) > Len(fields) THEN "InvalidRecord" ELSE "Ok"

\* ExpectedBootImage::new(), with the limit of the caller
ExpectedCheck(bytes, limit) == IF bytes = 0 \/ bytes > limit THEN "InvalidSelection" ELSE "Ok"

Field(key, kind) == [key |-> key, kind |-> kind]

Identity ==
  <<Field("device-class", "class"), Field("source-sha256", "sha256"),
    Field("manifest-sha256", "sha256")>>

\* A file, by where it is and what it must hold.
FileFields(path, bytes, sha256) ==
  <<Field(path, "path"), Field(bytes, "bytes"), Field(sha256, "sha256")>>

Value(record, key) ==
  record.lines[CHOOSE n \in DOMAIN record.lines : record.lines[n].key = key].value

Expected(record, bytes, sha256) ==
  [length |-> Value(record, bytes), digest |-> Value(record, sha256)]

IdentityOf(record) ==
  <<Value(record, "device-class"), Value(record, "source-sha256"),
    Value(record, "manifest-sha256")>>

SelectedFields == Identity \o FileFields("image-path", "image-bytes", "image-sha256")

\* parse_selected_boot_record()
SelectedCheck(record) ==
  LET lines == LinesCheck(record, "nextcore-selected-iboot-v1", SelectedFields)
  IN  IF lines # "Ok" THEN lines
      ELSE FirstError(<<NoMoreLines(record, SelectedFields),
                        ExpectedCheck(Value(record, "image-bytes"), MaxSelectedImage)>>)

PayloadFields ==
  <<Field("signed-sha256", "sha256")>>
    \o FileFields("decoded-path", "decoded-bytes", "decoded-sha256")

\* parse_selected_payload_record()
PayloadCheck(record) ==
  LET lines == LinesCheck(record, "nextcore-selected-iboot-payload-v1", PayloadFields)
  IN  IF lines # "Ok" THEN lines
      ELSE FirstError(<<NoMoreLines(record, PayloadFields),
                        ExpectedCheck(Value(record, "decoded-bytes"), MaxSelectedImage)>>)

BootKcFields ==
  Identity \o FileFields("signed-path", "signed-bytes", "signed-sha256")
    \o FileFields("decoded-path", "decoded-bytes", "decoded-sha256")

\* parse_selected_bootkc_record()
BootKcCheck(record) ==
  LET lines == LinesCheck(record, "nextcore-selected-bootkc-v1", BootKcFields)
  IN  IF lines # "Ok" THEN lines
      ELSE FirstError(<<
        NoMoreLines(record, BootKcFields),
        IF Value(record, "signed-path") = Value(record, "decoded-path")
          THEN "InvalidRecord" ELSE "Ok",
        ExpectedCheck(Value(record, "signed-bytes"), MaxSelectedImage),
        ExpectedCheck(Value(record, "decoded-bytes"), MaxBootKc)>>)

RoleFields(role) ==
  IF role = "sptm"
    THEN FileFields("sptm-signed-path", "sptm-signed-bytes", "sptm-signed-sha256")
           \o FileFields("sptm-decoded-path", "sptm-decoded-bytes", "sptm-decoded-sha256")
    ELSE FileFields("txm-signed-path", "txm-signed-bytes", "txm-signed-sha256")
           \o FileFields("txm-decoded-path", "txm-decoded-bytes", "txm-decoded-sha256")

CompanionFields == Identity \o RoleFields("sptm") \o RoleFields("txm")

\* The files of both companions, in the order in which they are compared.
CompanionPaths(record) ==
  <<Value(record, "sptm-signed-path"), Value(record, "sptm-decoded-path"),
    Value(record, "txm-signed-path"), Value(record, "txm-decoded-path")>>

\* A fault: cases are told apart.
SamePath(p, q) == p = q

\* eq_ignore_ascii_case()
SameFile(p, q) == p.parts = q.parts

DistinctFiles(paths) ==
  \A m, n \in DOMAIN paths : m < n => ~ SameFile(paths[m], paths[n])

\* parse_selected_startup_companions(): the lines of a role and its two sizes
\* are checked before those of the next.
CompanionsCheck(record) ==
  LET header == LinesCheck(record, "nextcore-selected-startup-companions-v1", Identity)
      Through(fields) ==
        LinesCheck(record, "nextcore-selected-startup-companions-v1", fields)
  IN  IF header # "Ok" THEN header
      ELSE IF Through(Identity \o RoleFields("sptm")) # "Ok" THEN "InvalidRecord"
      ELSE IF \/ ExpectedCheck(Value(record, "sptm-signed-bytes"), MaxSelectedImage) # "Ok"
              \/ ExpectedCheck(Value(record, "sptm-decoded-bytes"), MaxSelectedImage) # "Ok"
        THEN "InvalidSelection"
      ELSE IF Through(CompanionFields) # "Ok" THEN "InvalidRecord"
      ELSE FirstError(<<ExpectedCheck(Value(record, "txm-signed-bytes"), MaxSelectedImage),
                        ExpectedCheck(Value(record, "txm-decoded-bytes"), MaxSelectedImage),
                        NoMoreLines(record, CompanionFields),
                        IF DistinctFiles(CompanionPaths(record)) THEN "Ok"
                        ELSE "InvalidRecord">>)

-----------------------------------------------------------------------------
(* How records name one another *)

\* binds_selected(), of a boot collection and of the companions
Binds(record, selected) == IdentityOf(record) = IdentityOf(selected)

\* matches_selected_path(): the path that the configuration names, exactly.
MatchesPath(record, selected, configured) ==
  Binds(record, selected) /\ Value(record, "decoded-path") = configured

\* paths_disjoint_from()
DisjointFrom(record, reserved) ==
  \A n \in DOMAIN CompanionPaths(record) : \A m \in DOMAIN reserved :
    ~ SameFile(CompanionPaths(record)[n], reserved[m])

-----------------------------------------------------------------------------
(* Bytes *)

\* verify_selected_image(), of a selection that is there
ImageCheck(expected, content) ==
  FirstRefusal(<<<<content.length # expected.length, "SizeMismatch">>,
                 <<content.digest # expected.digest, "DigestMismatch">>>>)

\* verify_selected_record_digest(): the record itself, against what the build
\* was sealed with, if it was.
SealCheck(sealed, record) ==
  FirstRefusal(<<<<sealed = {}, "MissingSelection">>,
                 <<record.size = 0 \/ record.size > MaxRecord, "InvalidRecord">>,
                 <<record.digest \notin sealed, "DigestMismatch">>>>)

\* A fault: whose payload it is, is not asked.
PayloadBindsAnything(selected, payload) == TRUE

PayloadBinds(selected, payload) ==
  /\ Value(payload, "signed-sha256") = Value(selected, "image-sha256")
  /\ Value(payload, "decoded-path") # Value(selected, "image-path")

\* Everything that copy_selected_payload() checks before it copies.
CopyCheck(selected, signed, payload, decoded, capacity) ==
  FirstError(<<
    ImageCheck(Expected(selected, "image-bytes", "image-sha256"), signed),
    IF PayloadBinds(selected, payload) THEN "Ok" ELSE "BindingMismatch",
    ImageCheck(Expected(payload, "decoded-bytes", "decoded-sha256"), decoded),
    IF capacity < decoded.length THEN "DestinationCapacity" ELSE "Ok">>)

\* The destination after the copy.
Copied(destination, content) ==
  [n \in DOMAIN destination |->
     IF n <= content.length THEN <<content.digest, n>> ELSE destination[n]]

=============================================================================
