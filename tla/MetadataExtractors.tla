------------------------- MODULE MetadataExtractors -------------------------
(***************************************************************************)
(* The registry of extractors (src/src/metadata/file-metadata-extractor.   *)
(* {h,cpp}) and the only extractor there is, TagLibMetadataExtractor       *)
(* (src/src/metadata/extractors/taglib-metadata-extractor.{h,cpp}).        *)
(* TagLib is external: a song is its tags.                                 *)
(***************************************************************************)
EXTENDS StringEncoding

CONSTANT Extensions   (* the extensions main registers, in upper case *)

VARIABLE registered   (* the keys of m_registeredExtractors *)

Fields == {"title", "artist", "album", "composer", "genre"}

(* A tag of each name may be in the file. *)
Tag == [latin1 : BOOLEAN, text : Text]
Song == [Fields -> Tag]

(* A field is empty, converted by TagLib, or by convertStringToUTF8. *)
Decoding == Encodings \cup {"empty", "unicode", Raw}

(* registerExtractor, for one extension. *)
RegisterExtractor(extension) == registered' = registered \cup {extension}

(* getMetadataExtractorForFile finds an extractor; otherwise it throws. *)
HasExtractor(extension) == extension \in registered

(* The tag each field is read from: t_composer is the artist, too. *)
SourceTag(field) == IF field = "composer" THEN "artist" ELSE field

(* One field: toCString(true), or the conversion of toCString(false). *)
Field(tag) == IF tag.latin1 THEN ConvertCStringToUTF8(tag.text) ELSE "unicode"

(* extractMetadata, on a file that TagLib can read. *)
Metadata(song) == [field \in Fields |-> Field(song[SourceTag(field)])]

=============================================================================
