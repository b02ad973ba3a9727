------------------------- MODULE ChainSourceProofs -------------------------
(***************************************************************************)
(* Proofs about the chain-source settings for every set of files, search  *)
(* order and field values: type correctness, and that the chain source    *)
(* the app displays is the one its config file loads.                     *)
(***************************************************************************)
EXTENDS ChainSource, SequenceTheorems, TLAPS

(* A chain-source configuration is a record of a kind and a value.      *)
LEMMA ConfigShape ==
    ASSUME NEW c \in Configs
    PROVE  /\ c = [kind |-> c.kind, val |-> c.val]
           /\ c.val \in Text
           /\ c.kind \in Kinds \cup {"None"}
           /\ c.kind = "None" => c = NoSource
<1>1. CASE c = NoSource
  BY <1>1 DEF NoSource, Text
<1>2. CASE c \in [kind: Kinds, val: Text]
  BY <1>2 DEF Kinds
<1>3. QED
  BY <1>1, <1>2 DEF Configs

(* ChainSourceForm::from_config gives a form.                             *)
LEMMA FromConfigType ==
    ASSUME NEW c \in Configs
    PROVE  FromConfig(c) \in Forms
<1>1. CASE c = NoSource
  BY <1>1 DEF FromConfig, NoSource, Forms, Text, Kinds, UrlKinds
<1>2. CASE c \in [kind: Kinds, val: Text]
  BY <1>2 DEF FromConfig, Forms, Text, Kinds, UrlKinds
<1>3. QED
  BY <1>1, <1>2 DEF Configs

(* ChainSourceForm::to_config gives a chain-source configuration.         *)
LEMMA ToConfigType ==
    ASSUME NEW fm \in Forms
    PROVE  ToConfig(fm) \in Configs
BY DEF ToConfig, Configs, NoSource, Forms, Text, Kinds

(* try_from gives a chain-source configuration for a well-formed file.   *)
LEMMA ChainOfType ==
    ASSUME NEW f \in Files
    PROVE  ChainOf(f) \in Configs
BY DEF ChainOf, Configs, NoSource, Files, Kinds, Text

(* save_chain_source rewrites a file into a file, keeping whether it     *)
(* exists, parses and has the ldk-server sections.                        *)
LEMMA WrittenType ==
    ASSUME NEW f \in Files, NEW c \in Configs
    PROVE  /\ Written(f, c) \in Files
           /\ Loads(Written(f, c)) = Loads(f)
<1>1. c.val \in Text
  BY ConfigShape
<1>2. [s \in Kinds |-> IF s = c.kind THEN c.val ELSE Absent]
        \in [Kinds -> Text \cup {Absent}]
  BY <1>1
<1>3. QED
  BY <1>2 DEF Written, Files, Loads

(* The round trip of Save: the file save_chain_source writes for c loads *)
(* back as c.  The sections of the other types are gone, so try_from's    *)
(* precedence cannot pick one of them.                                    *)
LEMMA ChainOfWritten ==
    ASSUME NEW f \in Files, NEW c \in Configs
    PROVE  ChainOf(Written(f, c)) = c
<1> DEFINE w == Written(f, c)
<1>1. \A s \in Kinds : w.sec[s] = IF s = c.kind THEN c.val ELSE Absent
  <2>1. w.sec = [s \in Kinds |-> IF s = c.kind THEN c.val ELSE Absent]
    BY DEF Written, Files
  <2>2. QED
    BY <2>1
<1>2. /\ c = [kind |-> c.kind, val |-> c.val]
      /\ c.val \in Text /\ Absent \notin Text
  BY ConfigShape, ChainSourceAssumption DEF Text
<1>3. CASE c.kind = "Bitcoind"
  BY <1>1, <1>2, <1>3 DEF ChainOf, Kinds
<1>4. CASE c.kind = "Electrum"
  BY <1>1, <1>2, <1>4 DEF ChainOf, Kinds
<1>5. CASE c.kind = "Esplora"
  BY <1>1, <1>2, <1>5 DEF ChainOf, Kinds
<1>6. CASE c.kind \notin Kinds
  <2>1. c = NoSource
    BY <1>6, ConfigShape DEF Kinds
  <2>2. \A s \in Kinds : w.sec[s] = Absent
    BY <1>1, <1>6
  <2>3. QED
    BY <2>1, <2>2 DEF ChainOf, Kinds
<1>7. QED
  BY <1>3, <1>4, <1>5, <1>6 DEF Kinds

-----------------------------------------------------------------------------
(* The files the program can find on disk are well formed.               *)
LEMMA DiskFilesType == DiskFiles \subseteq Files
<1>1. Missing \in Files
  BY DEF Missing, Files
<1>2. [Missing EXCEPT !.exists = TRUE] \in Files
  BY <1>1 DEF Missing, Files
<1>3. QED
  BY <1>1, <1>2 DEF DiskFiles

(* The inductive invariant: the state is well typed and the displayed   *)
(* chain source is the one the config file loads.                        *)
CInv == TypeOK /\ DisplayedMatchesFile

LEMMA InitCInv == Init => CInv
<1> SUFFICES ASSUME Init PROVE CInv
  OBVIOUS
<1>1. files \in [Paths -> Files] /\ configPath = NoPath
  BY DiskFilesType DEF Init
<1>2. CASE Found(files) = {}
  <2>1. form = FromConfig(NoSource) /\ chainSource = NoSource
        /\ status = "None" /\ loadedFrom = NoPath
    BY <1>2 DEF Init
  <2>2. NoSource \in Configs
    BY DEF Configs
  <2>3. QED
    BY <1>1, <2>1, <2>2, FromConfigType DEF CInv, TypeOK, DisplayedMatchesFile
<1>3. CASE Found(files) # {}
  <2>1. PICK i \in Found(files) :
          /\ form = FromConfig(ChainOf(files[SearchOrder[i]]))
          /\ chainSource = ChainOf(files[SearchOrder[i]])
          /\ status = "Ok"
          /\ loadedFrom = SearchOrder[i]
    BY <1>3 DEF Init
  <2>2. SearchOrder[i] \in Paths
    <3>1. i \in 1..Len(SearchOrder)
      BY DEF Found
    <3>2. QED
      BY <3>1, ChainSourceAssumption, ElementOfSeq
  <2>3. ChainOf(files[SearchOrder[i]]) \in Configs
    BY <1>1, <2>2, ChainOfType
  <2>4. QED
    BY <1>1, <2>1, <2>2, <2>3, FromConfigType
       DEF CInv, TypeOK, DisplayedMatchesFile
<1>4. QED
  BY <1>2, <1>3

(* A successful save_chain_source to path p keeps the files well formed  *)
(* and makes the file at p load as the configuration saved.               *)
LEMMA SaveToFacts ==
    ASSUME TypeOK, NEW p \in Paths, SaveTo(p), Saves(files[p])
    PROVE  /\ files' \in [Paths -> Files]
           /\ chainSource' = ToConfig(form)
           /\ chainSource' \in Configs
           /\ Loads(files'[p]) => ChainOf(files'[p]) = chainSource'
<1>1. ToConfig(form) \in Configs
  BY ToConfigType DEF TypeOK
<1>2. files' = [files EXCEPT ![p] = Written(files[p], ToConfig(form))]
      /\ chainSource' = ToConfig(form)
  BY DEF SaveTo
<1>3. Written(files[p], ToConfig(form)) \in Files
  BY <1>1, WrittenType DEF TypeOK
<1>4. ChainOf(Written(files[p], ToConfig(form))) = ToConfig(form)
  BY <1>1, ChainOfWritten DEF TypeOK
<1>5. QED
  BY <1>1, <1>2, <1>3, <1>4 DEF TypeOK

(* A failed save leaves the files and the displayed source alone.         *)
LEMMA SaveToFails ==
    ASSUME NEW p \in Paths, SaveTo(p), ~Saves(files[p])
    PROVE  UNCHANGED <<files, chainSource>>
BY DEF SaveTo

LEMMA NextCInv == CInv /\ [Next]_vars => CInv'
<1> SUFFICES ASSUME CInv, [Next]_vars PROVE CInv'
  OBVIOUS
<1>0. TypeOK /\ DisplayedMatchesFile
  BY DEF CInv
<1>1. ASSUME NEW p \in Paths, LoadConfig(p) PROVE CInv'
  <2>1. CASE Loads(files[p])
    <3>1. /\ chainSource' = ChainOf(files[p])
          /\ form' = FromConfig(ChainOf(files[p]))
          /\ configPath' = p /\ status' = "Ok" /\ loadedFrom' = p
          /\ files' = files
      BY <1>1, <2>1 DEF LoadConfig
    <3>2. ChainOf(files[p]) \in Configs
      BY <1>0, ChainOfType DEF TypeOK
    <3>3. QED
      BY <1>0, <3>1, <3>2, FromConfigType DEF CInv, TypeOK, DisplayedMatchesFile
  <2>2. CASE ~Loads(files[p])
    <3>1. status' = "Err" /\ UNCHANGED <<files, form, chainSource, configPath, loadedFrom>>
      BY <1>1, <2>2 DEF LoadConfig
    <3>2. QED
      BY <1>0, <3>1 DEF CInv, TypeOK, DisplayedMatchesFile
  <2>3. QED
    BY <2>1, <2>2
<1>2. ASSUME NEW t \in Kinds, SelectType(t) PROVE CInv'
  BY <1>0, <1>2 DEF SelectType, CInv, TypeOK, DisplayedMatchesFile, Forms
<1>3. ASSUME NEW v \in Text, EditField(v) PROVE CInv'
  BY <1>0, <1>3 DEF EditField, CInv, TypeOK, DisplayedMatchesFile, Forms
<1>4. CASE Save
  <2>1. UNCHANGED <<form, configPath, loadedFrom>>
    BY <1>4 DEF Save
  <2>2. CASE configPath = NoPath
    <3>1. status' = "Err" /\ UNCHANGED <<files, chainSource>>
      BY <1>4, <2>2 DEF Save
    <3>2. QED
      BY <1>0, <2>1, <2>2, <3>1 DEF CInv, TypeOK, DisplayedMatchesFile
  <2>3. CASE configPath # NoPath
    <3>1. configPath \in Paths /\ SaveTo(configPath)
      BY <1>0, <1>4, <2>3 DEF Save, TypeOK
    <3>2. status' \in {"None", "Ok", "Err"}
      BY <3>1 DEF SaveTo
    <3>3. CASE Saves(files[configPath])
      BY <1>0, <2>1, <3>1, <3>2, <3>3, SaveToFacts
         DEF CInv, TypeOK, DisplayedMatchesFile
    <3>4. CASE ~Saves(files[configPath])
      BY <1>0, <2>1, <3>1, <3>2, <3>4, SaveToFails
         DEF CInv, TypeOK, DisplayedMatchesFile
    <3>5. QED
      BY <3>3, <3>4
  <2>4. QED
    BY <2>2, <2>3
<1>5. ASSUME NEW p \in Paths, SaveAs(p) PROVE CInv'
  <2>1. SaveTo(p) /\ UNCHANGED form
    BY <1>5 DEF SaveAs
  <2>2. status' \in {"None", "Ok", "Err"}
    BY <2>1 DEF SaveTo
  <2>3. CASE Saves(files[p])
    <3>1. configPath' = p /\ loadedFrom' = p
      BY <1>5, <2>3 DEF SaveAs
    <3>2. QED
      BY <1>0, <2>1, <2>2, <2>3, <3>1, SaveToFacts
         DEF CInv, TypeOK, DisplayedMatchesFile
  <2>4. CASE ~Saves(files[p])
    <3>1. UNCHANGED <<configPath, loadedFrom>>
      BY <1>5, <2>4 DEF SaveAs
    <3>2. QED
      BY <1>0, <2>1, <2>2, <2>4, <3>1, SaveToFails
         DEF CInv, TypeOK, DisplayedMatchesFile
  <2>5. QED
    BY <2>3, <2>4
<1>6. CASE UNCHANGED vars
  BY <1>0, <1>6 DEF vars, CInv, TypeOK, DisplayedMatchesFile
<1>7. QED
  BY <1>1, <1>2, <1>3, <1>4, <1>5, <1>6 DEF Next

-----------------------------------------------------------------------------
(* Every reachable state of the settings is well typed.                   *)
THEOREM ChainSourceTypeCorrect == Spec => []TypeOK
<1>1. CInv => TypeOK
  BY DEF CInv
<1>2. QED
  BY InitCInv, NextCInv, <1>1, PTL DEF Spec

(* In every reachable state, while a config file is in use and loads, the *)
(* chain source the app displays is the one that file loads: Load Config, *)
(* Save and Save As go through from_config, to_config and                 *)
(* save_chain_source, which agree on every type and drop the sections    *)
(* try_from would otherwise prefer.                                       *)
THEOREM SaveRoundTrip == Spec => []DisplayedMatchesFile
<1>1. CInv => DisplayedMatchesFile
  BY DEF CInv
<1>2. QED
  BY InitCInv, NextCInv, <1>1, PTL DEF Spec

=============================================================================
