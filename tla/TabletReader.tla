---------------------------- MODULE TabletReader ----------------------------
(***************************************************************************)
(* dwio/nimble/tablet/TabletReader, opened on a file that TabletWriter has *)
(* closed.  The reader sees extents by offset, size and codec only: a read *)
(* that does not hit what one append wrote returns Garbage.                *)
(*                                                                         *)
(* This module has one caller at a time; the caches several threads share  *)
(* are in module StripeGroupCache.                                         *)
(***************************************************************************)
EXTENDS TabletWriter

CONSTANTS
    FooterWindows,  \* values of kInitialFooterSize to open the file with
    MaxCalls,       \* bound: calls of load and loadOptionalSection
    UnknownStream,  \* a stream id past every stream of the file
    UnknownSection  \* a section name that was never written

ASSUME ReaderAssumption ==
    /\ FooterWindows \subseteq Nat
    /\ \A window \in FooterWindows : window >= kPostscriptSize
    /\ MaxCalls \in Nat
    /\ UnknownStream \in Nat
    /\ \A id \in StreamIds : id < UnknownStream
    /\ UnknownSection \notin SectionNames

VARIABLES
    reader,                 \* the constructor's initial read, and its outcome
    optionalSectionsCache,  \* optionalSectionsCache_
    result,                 \* what the last call returned
    calls                   \* number of calls made, up to MaxCalls

readerVars == <<reader, optionalSectionsCache, result, calls>>

Garbage == [kind |-> "Garbage"]
Empty == [kind |-> "Empty"]
NullPtr == [kind |-> "nullptr"]
NullOpt == [kind |-> "nullopt"]

MinOf(S) == CHOOSE x \in S : \A y \in S : x <= y

-----------------------------------------------------------------------------
(* Reading regions of the file                                             *)

(* preadv of one region, then decoding it with the recorded codec.         *)
MetadataBuffer(section) ==
    LET hits == {k \in DOMAIN file : /\ file[k].offset = section.offset
                                     /\ file[k].size = section.size
                                     /\ file[k].codec = section.codec}
    IN  IF section.size = 0 THEN Empty
        ELSE IF hits = {} THEN Garbage
        ELSE file[CHOOSE k \in hits : TRUE].payload

(* Postscript::parse of the last kPostscriptSize bytes.                    *)
Postscript ==
    MetadataBuffer([offset |-> fileSize - kPostscriptSize,
                    size |-> kPostscriptSize, codec |-> "Uncompressed"])

Footer ==
    MetadataBuffer(
        [offset |-> fileSize - kPostscriptSize - Postscript.footerSize,
         size |-> Postscript.footerSize,
         codec |-> Postscript.footerCompressionType])

Stripes == MetadataBuffer(Footer.stripes[1])

-----------------------------------------------------------------------------
(* The constructor                                                         *)

ReadSize(window) == IF window <= fileSize THEN window ELSE fileSize

(* Whether a section lies within the initial read of the tail of the file. *)
Fetched(section, window) == section.offset + ReadSize(window) >= fileSize

(* The first check of the constructor (and of initStripes) that fails.     *)
OpenError(window) ==
    IF ReadSize(window) < kPostscriptSize
    THEN "Corrupted file. Footer is too small."
    ELSE IF Postscript.footerSize + kPostscriptSize > ReadSize(window)
    THEN "Unexpected footer size"
    ELSE IF Footer.stripes = <<>>
    THEN "none"
    ELSE IF ~Fetched(Footer.stripes[1], window)
    THEN "Incomplete stripes metadata."
    ELSE IF \/ Footer.stripe_groups = <<>>
            \/ Len(Footer.stripe_groups) #
                 Stripes.group_indices[Len(Stripes.group_indices)] + 1
    THEN "Unexpected stripe group count"
    ELSE IF \/ Len(Stripes.row_counts) = 0
            \/ Len(Stripes.row_counts) # Len(Stripes.offsets)
            \/ Len(Stripes.row_counts) # Len(Stripes.sizes)
            \/ Len(Stripes.row_counts) # Len(Stripes.group_indices)
    THEN "Unexpected stripe count"
    ELSE "none"

HasSection(name) ==
    name \in SectionNames /\ Footer.optional_sections[name] # <<>>

(* Open the file and preload a set of optional sections: those that start  *)
(* inside the initial read are taken from it, the others with one more     *)
(* preadv; names the file does not have are skipped.                       *)
Open(window, preload) ==
    /\ pc = "closed"
    /\ reader.status = "unopened"
    /\ LET error == OpenError(window)
       IN  IF error # "none"
           THEN /\ reader' = [status |-> "failed", error |-> error,
                              window |-> window, eager |-> FALSE]
                /\ UNCHANGED optionalSectionsCache
           ELSE /\ reader' =
                     [status |-> "open", error |-> "none", window |-> window,
                      eager |-> /\ Len(Footer.stripe_groups) = 1
                                /\ Fetched(Footer.stripe_groups[1], window)]
                /\ optionalSectionsCache' =
                     [n \in {m \in preload : HasSection(m)} |->
                        MetadataBuffer(Footer.optional_sections[n][1])]
    /\ UNCHANGED <<vars, result, calls>>

Call ==
    /\ reader.status = "open"
    /\ calls < MaxCalls
    /\ calls' = calls + 1

-----------------------------------------------------------------------------
(* Streams                                                                 *)

(* StripeGroup::StripeGroup                                                *)
StripeGroup(index) ==
    LET metadata == MetadataBuffer(Footer.stripe_groups[index + 1])
        members == {i \in DOMAIN Stripes.group_indices :
                      Stripes.group_indices[i] = index}
    IN  [streamCount |->
            Len(metadata.stream_offsets) \div metadata.stripe_count,
         firstStripe |-> MinOf(members),
         streamOffsets |-> metadata.stream_offsets,
         streamSizes |-> metadata.stream_sizes]

(* Position of a stream's entry in the vectors of its group.               *)
EntryOf(group, stripe, id) ==
    (stripe - group.firstStripe) * group.streamCount + id + 1

(* One iteration of load: nullptr for a stream past the group's streams or *)
(* of size 0.  Stripes count from 1 here.                                  *)
LoadStream(stripe, id) ==
    LET group == StripeGroup(Stripes.group_indices[stripe])
        entry == EntryOf(group, stripe, id)
    IN  IF id >= group.streamCount \/ group.streamSizes[entry] = 0
        THEN NullPtr
        ELSE MetadataBuffer(
               [offset |-> Stripes.offsets[stripe]
                             + group.streamOffsets[entry],
                size |-> group.streamSizes[entry],
                codec |-> "Uncompressed"])

(* Mutant: the sizes of the first stripe of the group.                     *)
GetTotalStreamSize_FirstRow(stripe, ids) ==
    LET group == StripeGroup(Stripes.group_indices[stripe])
    IN  SumOf([i \in DOMAIN ids |->
                 IF ids[i] >= group.streamCount THEN 0
                 ELSE group.streamSizes[ids[i] + 1]])

(* getTotalStreamSize                                                      *)
GetTotalStreamSize(stripe, ids) ==
    LET group == StripeGroup(Stripes.group_indices[stripe])
    IN  SumOf([i \in DOMAIN ids |->
                 IF ids[i] >= group.streamCount THEN 0
                 ELSE group.streamSizes[EntryOf(group, stripe, ids[i])]])

(* A load changes nothing a later call could see: it is explored as the    *)
(* only call.                                                              *)
Load(stripe, ids) ==
    /\ reader.status = "open"
    /\ calls = 0
    /\ calls' = MaxCalls
    /\ stripe \in 1..Len(rowCounts)
    /\ result' = [call |-> "load", stripe |-> stripe, ids |-> ids,
                  streams |-> [i \in DOMAIN ids |-> LoadStream(stripe, ids[i])],
                  total |-> GetTotalStreamSize(stripe, ids)]
    /\ UNCHANGED <<vars, reader, optionalSectionsCache>>

-----------------------------------------------------------------------------
(* loadOptionalSection: a cached section is copied (keepCache) or moved    *)
(* out and forgotten; otherwise it is read from the file.                  *)
LoadOptionalSection(name, keepCache) ==
    /\ Call
    /\ \/ /\ name \in DOMAIN optionalSectionsCache
          /\ result' = [call |-> "section", name |-> name,
                        section |-> optionalSectionsCache[name]]
          /\ optionalSectionsCache' =
               IF keepCache THEN optionalSectionsCache
               ELSE [n \in DOMAIN optionalSectionsCache \ {name} |->
                       optionalSectionsCache[n]]
       \/ /\ name \notin DOMAIN optionalSectionsCache
          /\ result' = [call |-> "section", name |-> name,
                        section |->
                          IF HasSection(name)
                          THEN MetadataBuffer(Footer.optional_sections[name][1])
                          ELSE NullOpt]
          /\ UNCHANGED optionalSectionsCache
    /\ UNCHANGED <<vars, reader>>

-----------------------------------------------------------------------------
ReaderInit ==
    /\ Init
    /\ reader = [status |-> "unopened", error |-> "none", window |-> 0,
                 eager |-> FALSE]
    /\ optionalSectionsCache = <<>>
    /\ result = [call |-> "none"]
    /\ calls = 0

(* The ids of a load: any list of at most two, in any order, repeats and   *)
(* unknown ids included.                                                   *)
IdLists == UNION {[1..n -> StreamIds \cup {UnknownStream}] : n \in 0..2}

ReaderNext ==
    \/ Next /\ UNCHANGED readerVars
    \/ \E window \in FooterWindows,
          preload \in SUBSET (SectionNames \cup {UnknownSection}) :
         Open(window, preload)
    \/ \E stripe \in 1..MaxStripes, ids \in IdLists : Load(stripe, ids)
    \/ \E name \in SectionNames \cup {UnknownSection}, keepCache \in BOOLEAN :
         LoadOptionalSection(name, keepCache)

ReaderSpec == ReaderInit /\ [][ReaderNext]_<<vars, readerVars>>

-----------------------------------------------------------------------------
(* Properties                                                              *)

(* The stream of a stripe, as the caller of writeStripe handed it over.    *)
WrittenStream(stripe, id) ==
    IF \E s \in written[stripe] : s.offset = id /\ s.size > 0
    THEN [kind |-> "Stream", stripe |-> stripe, id |-> id]
    ELSE NullPtr

(* load returns, slot by slot, the bytes written for that stream of that   *)
(* stripe, and nullptr for a stream the stripe does not have, whatever     *)
(* group the stripe landed in, how wide its neighbours were and in which   *)
(* order the layout planner put the streams.                               *)
LoadReturnsWritten ==
    result.call = "load" =>
        \A i \in DOMAIN result.ids :
            result.streams[i] = WrittenStream(result.stripe, result.ids[i])

(* getTotalStreamSize is the sum of the sizes of the streams written.      *)
TotalSizeIsWritten ==
    result.call = "load" =>
        result.total =
            SumOf([i \in DOMAIN result.ids |->
                LET s == {x \in written[result.stripe] :
                            x.offset = result.ids[i]}
                IN  IF s = {} THEN 0 ELSE (CHOOSE x \in s : TRUE).size])

(* An optional section reads back as written whether it came with the      *)
(* initial read, with the extra preadv, from the cache, or from the file   *)
(* after a first caller moved it out of the cache.                         *)
SectionReturnsWritten ==
    result.call = "section" =>
        result.section =
            IF \/ result.name = UnknownSection
               \/ optionalSections[result.name] = <<>> THEN NullOpt
            ELSE IF optionalSections[result.name][1].size = 0 THEN Empty
            ELSE [kind |-> "Optional", name |-> result.name]

(* What load, getTotalStreamSize and loadOptionalSection return is what     *)
(* writeStripe and writeOptionalSection were given.                        *)
ReadsReturnWritten ==
    /\ LoadReturnsWritten
    /\ TotalSizeIsWritten
    /\ SectionReturnsWritten

(* The footer close appended before the postscript, or the stripes section *)
(* it recorded, begins before the initial read of the end of the file.     *)
FooterMissed == file[Len(file) - 1].offset + reader.window < fileSize
StripesMissed ==
    stripes # <<>> /\ stripes[1].offset + reader.window < fileSize

(* The constructor opens a file TabletWriter closed if and only if its     *)
(* initial read holds footer and stripes section, and its error says which *)
(* of them it missed: the consistency checks on the metadata never fire,   *)
(* and sizes at the boundary are not refused.  The comment at              *)
(* TabletReader.cpp:290 promises a second read; no code makes it.          *)
OpensUnlessMissed ==
    reader.status # "unopened" =>
        reader.error = IF FooterMissed THEN "Unexpected footer size"
                       ELSE IF StripesMissed THEN "Incomplete stripes metadata."
                       ELSE "none"
=============================================================================
