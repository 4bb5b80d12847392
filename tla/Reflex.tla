-------------------------------- MODULE Reflex --------------------------------
(***************************************************************************)
(* Reflection (libreflex): values described by schemas, and the JSON they  *)
(* are written to and read from. A value is what the memory of an object   *)
(* holds: a number, a string or a flag is itself, a vector is a sequence,  *)
(* a box a sequence of at most one, an object a record of its fields, a    *)
(* handle of an asset its key.                                             *)
(*                                                                         *)
(* All arrays are vectors and all pointers boxes, which have all of their  *)
(* operations, so that nothing fails to be encoded. The widths of numbers  *)
(* are left out, as a value is read into the type it was written from.     *)
(***************************************************************************)
EXTENDS Naturals, Sequences, SequencesExt, FiniteSetsExt

CONSTANTS Schemas,     \* the schemas, by name
          NoUuid, NoLogical

ASSUME ReflexAssumption ==
    \A s \in DOMAIN Schemas :
        /\ Schemas[s].primitive \in {"Bool", "Number", "String", "Vec3", "Enum", "Uuid",
                                     "AssetRef", "Pointer", "Array", "Object"}
        /\ Schemas[s].primitive \in {"Pointer", "Array"} => Schemas[s].element \in DOMAIN Schemas

Fields(s) == Schemas[s].fields
FieldOf(s, name) == CHOOSE f \in Range(Fields(s)) : f.name = name
FieldNames(s) == {f.name : f \in Range(Fields(s))}

\* The first annotation of a kind that a field has.
HasAnnotation(f, annotation) == annotation \in f.annotations

JsonName(f) == IF f.json # "" THEN f.json ELSE f.name

\* The name of an enumerator, and the enumerator of a name: nothing, and zero,
\* when there is none.
EnumToString(s, value) ==
    LET named == SelectInSeq(Schemas[s].values, LAMBDA e : e.value = value)
    IN IF named = 0 THEN "" ELSE Schemas[s].values[named].name

EnumToValue(s, name) ==
    LET named == SelectInSeq(Schemas[s].values, LAMBDA e : e.name = name)
    IN IF named = 0 THEN 0 ELSE Schemas[s].values[named].value

NoAsset == [uuid |-> NoUuid, logical |-> NoLogical]

\* What a value is when it has just been constructed.
RECURSIVE Constructed(_)
Constructed(s) ==
    LET primitive == Schemas[s].primitive
    IN CASE primitive = "Bool" -> FALSE
         [] primitive \in {"Number", "Enum"} -> 0
         [] primitive = "String" -> ""
         [] primitive = "Vec3" -> <<0, 0, 0>>
         [] primitive = "Uuid" -> NoUuid
         [] primitive = "AssetRef" -> NoAsset
         [] primitive \in {"Array", "Pointer"} -> <<>>
         [] primitive = "Object" -> [name \in FieldNames(s) |-> Constructed(FieldOf(s, name).schema)]

-----------------------------------------------------------------------------
(***************************************************************************)
(* JSON. An object has the member $schema too, which nothing reads.        *)
(***************************************************************************)
JsonNull == [kind |-> "null"]
Json(kind, x) == [kind |-> kind, is |-> x]

EncodeUuid(v) == IF v = NoUuid THEN JsonNull ELSE Json("String", v)

EncodeAssetRef(v) ==
    LET members == (IF v.uuid = NoUuid THEN {} ELSE {"uuid"})
                     \cup (IF v.uuid = NoUuid \/ v.logical = NoLogical THEN {} ELSE {"logical"})
    IN Json("Object", [name \in members |-> Json("String", v[name])])

RECURSIVE EncodeValue(_, _)

EncodeArray(s, v) == Json("Array", [i \in DOMAIN v |-> EncodeValue(Schemas[s].element, v[i])])

EncodeObject(s, v) ==
    Json("Object",
         [member \in {JsonName(f) : f \in Range(Fields(s))} |->
            LET f == CHOOSE g \in Range(Fields(s)) : JsonName(g) = member
            IN EncodeValue(f.schema, v[f.name])])

EncodeValue(s, v) ==
    LET primitive == Schemas[s].primitive
    IN CASE primitive \in {"Bool", "Number", "String"} -> Json(primitive, v)
         [] primitive = "Vec3" -> Json("Array", [i \in 1..3 |-> Json("Number", v[i])])
         [] primitive = "Enum" -> Json("String", EnumToString(s, v))
         [] primitive = "Pointer" -> IF v = <<>> THEN JsonNull ELSE EncodeValue(Schemas[s].element, v[1])
         [] primitive = "Array" -> EncodeArray(s, v)
         [] primitive = "Object" -> EncodeObject(s, v)
         [] primitive = "AssetRef" -> EncodeAssetRef(v)
         [] primitive = "Uuid" -> EncodeUuid(v)

-----------------------------------------------------------------------------
(***************************************************************************)
(* Decoding writes over a value that is there: what a document does not    *)
(* have stays. The rest of an object or an array is decoded when a part of *)
(* it cannot be, and the whole then fails. A scalar of another kind throws,*)
(* which nothing catches: no document here has one.                        *)
(***************************************************************************)
Decoded(v) == [value |-> v, ok |-> TRUE]
Undecoded(v) == [value |-> v, ok |-> FALSE]

HasString(json, member) == member \in DOMAIN json.is /\ json.is[member].kind = "String"

DecodeUuid(json, v) ==
    CASE json.kind = "null" -> Decoded(NoUuid)
      [] json.kind = "String" -> Decoded(json.is)
      [] OTHER -> Undecoded(v)

\* A key that cannot be read leaves the handle unset.
DecodeAssetRef(json) ==
    Decoded(
        CASE json.kind = "String" -> [NoAsset EXCEPT !.uuid = json.is]
          [] json.kind = "Object" /\ HasString(json, "uuid") ->
               [uuid |-> json.is.uuid.is,
                logical |-> IF HasString(json, "logical") THEN json.is.logical.is ELSE NoLogical]
          [] OTHER -> NoAsset)

RECURSIVE DecodeValue(_, _, _)

\* The array takes the size of the document's first, so that items that were there
\* already are decoded over.
DecodeArray(s, json, v) ==
    IF json.kind # "Array" THEN Undecoded(v)
    ELSE LET element == Schemas[s].element
             items == [i \in DOMAIN json.is |->
                         DecodeValue(element, json.is[i], IF i <= Len(v) THEN v[i] ELSE Constructed(element))]
         IN [value |-> [i \in DOMAIN items |-> items[i].value],
             ok |-> \A i \in DOMAIN items : items[i].ok]

DecodeObject(s, json, v) ==
    IF json.kind # "Object" THEN Undecoded(v)
    ELSE LET fields == [name \in FieldNames(s) |->
                LET f == FieldOf(s, name)
                IN IF JsonName(f) \in DOMAIN json.is
                   THEN DecodeValue(f.schema, json.is[JsonName(f)], v[name])
                   ELSE Decoded(v[name])]
         IN [value |-> [name \in DOMAIN fields |-> fields[name].value],
             ok |-> \A name \in DOMAIN fields : fields[name].ok]

DecodeVec3(json, v) ==
    IF json.kind = "Array" /\ Len(json.is) >= 3 /\ \A i \in 1..3 : json.is[i].kind = "Number"
    THEN Decoded([i \in 1..3 |-> json.is[i].is])
    ELSE Undecoded(v)

\* Nothing makes the object of an empty pointer.
DecodePointer(s, json, v) ==
    CASE json.kind = "null" -> Decoded(<<>>)
      [] json.kind # "null" /\ v # <<>> ->
           LET pointee == DecodeValue(Schemas[s].element, json, v[1])
           IN [pointee EXCEPT !.value = <<@>>]
      [] OTHER -> Undecoded(v)

DecodeValue(s, json, v) ==
    LET primitive == Schemas[s].primitive
    IN CASE primitive \in {"Bool", "Number", "String"} -> Decoded(json.is)
         [] primitive = "Vec3" -> DecodeVec3(json, v)
         [] primitive = "Enum" -> Decoded(EnumToValue(s, json.is))
         [] primitive = "Array" -> DecodeArray(s, json, v)
         [] primitive = "Object" -> DecodeObject(s, json, v)
         [] primitive = "Pointer" -> DecodePointer(s, json, v)
         [] primitive = "AssetRef" -> DecodeAssetRef(json)
         [] primitive = "Uuid" -> DecodeUuid(json, v)
=============================================================================
