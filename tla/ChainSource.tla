----------------------------- MODULE ChainSource -----------------------------
(***************************************************************************)
(* The chain-source settings of ldk-server-gui (native build): the config  *)
(* files on disk, the configuration found at start-up (config.rs           *)
(* find_and_load_config), the chain-source form and its conversions        *)
(* (state.rs ChainSourceForm::from_config / to_config), and the Load       *)
(* Config, Save and Save As buttons of the connection panel                *)
(* (ui/connection.rs), which read and rewrite a file with load_config and  *)
(* save_chain_source.                                                      *)
(*                                                                         *)
(* Data is abstracted: the three RPC strings of a bitcoind source are one  *)
(* value, a server URL is one value, and a file is what load_config and    *)
(* save_chain_source tell apart: whether it exists, whether it parses as a *)
(* TOML table, whether it has the [node] and [storage] sections, and the   *)
(* content of its three chain-source sections.                             *)
(***************************************************************************)
EXTENDS Naturals, Sequences

CONSTANTS
    Paths,       \* files the user can pick in the file dialogs
    SearchOrder, \* find_and_load_config: the search paths, then $LDK_SERVER_CONFIG
    Vals,        \* non-empty strings a field can hold
    Absent,      \* a chain-source section missing from a file
    NoPath       \* config_file_path = None

ASSUME ChainSourceAssumption ==
    /\ SearchOrder \in Seq(Paths)
    /\ Absent \notin Vals \cup {""}
    /\ NoPath \notin Paths

VARIABLES
    files,       \* the content of every file
    form,        \* AppState.forms.chain_source
    chainSource, \* AppState.chain_source: the source the app displays
    configPath,  \* AppState.config_file_path: a path, or NoPath
    status,      \* AppState.status_message: "None", "Ok" or "Err"
    loadedFrom   \* history: the file the settings were last loaded from or
                 \* saved to, or NoPath

vars == <<files, form, chainSource, configPath, status, loadedFrom>>

Text == Vals \cup {""}
Kinds == {"Bitcoind", "Electrum", "Esplora"}
UrlKinds == {"Electrum", "Esplora"}

(* ChainSourceConfig: None, or a kind with its value. *)
NoSource == [kind |-> "None", val |-> ""]
Configs == {NoSource} \cup [kind: Kinds, val: Text]

(* ChainSourceForm: the selected type and the fields of every type. *)
Forms == [source_type: Kinds \cup {"None"}, rpc: Text, url: Text]

(* A file: its chain-source sections sec[kind] are Absent or a value. *)
Files == [exists: BOOLEAN, table: BOOLEAN, full: BOOLEAN,
          sec: [Kinds -> Text \cup {Absent}]]
Missing == [exists |-> FALSE, table |-> FALSE, full |-> FALSE,
            sec |-> [s \in Kinds |-> Absent]]

(* The files the program can find on disk: missing, not TOML, or a TOML  *)
(* table with or without the ldk-server sections.                        *)
DiskFiles ==
    {Missing, [Missing EXCEPT !.exists = TRUE]}
    \cup {f \in Files : f.exists /\ f.table /\ \A s \in Kinds : f.sec[s] # ""}

(* load_config / parse_config_from_str succeed: the file is read and      *)
(* deserialises into TomlConfig, whose node and storage are required.     *)
Loads(f) == f.exists /\ f.table /\ f.full

(* GuiConfig::try_from: bitcoind wins over electrum, electrum over esplora. *)
ChainOf(f) ==
    IF f.sec["Bitcoind"] # Absent
    THEN [kind |-> "Bitcoind", val |-> f.sec["Bitcoind"]]
    ELSE IF f.sec["Electrum"] # Absent
    THEN [kind |-> "Electrum", val |-> f.sec["Electrum"]]
    ELSE IF f.sec["Esplora"] # Absent
    THEN [kind |-> "Esplora", val |-> f.sec["Esplora"]]
    ELSE NoSource

(* ChainSourceForm::from_config: the fields of the other types are empty. *)
FromConfig(c) ==
    [source_type |-> c.kind,
     rpc |-> IF c.kind = "Bitcoind" THEN c.val ELSE "",
     url |-> IF c.kind \in UrlKinds THEN c.val ELSE ""]

(* ChainSourceForm::to_config: the fields of the selected type. *)
ToConfig(fm) ==
    IF fm.source_type = "None" THEN NoSource
    ELSE [kind |-> fm.source_type,
          val |-> IF fm.source_type = "Bitcoind" THEN fm.rpc ELSE fm.url]

(* save_chain_source succeeds: the file is read and parses as a table.    *)
Saves(f) == f.exists /\ f.table

(* Mutant: the esplora section is not removed before the new one is added. *)
WrittenKeepsEsplora(f, c) ==
    [f EXCEPT !.sec = [s \in Kinds |->
                         IF s = c.kind THEN c.val
                         ELSE IF s = "Esplora" THEN f.sec[s] ELSE Absent]]

(* save_chain_source: remove the three sections, insert the one of c, and  *)
(* write the table back with its other sections.                          *)
Written(f, c) ==
    [f EXCEPT !.sec = [s \in Kinds |-> IF s = c.kind THEN c.val ELSE Absent]]

(* find_and_load_config: the first search path whose file loads.          *)
Found(fs) == {i \in 1..Len(SearchOrder) : Loads(fs[SearchOrder[i]])}

-----------------------------------------------------------------------------
(* LdkServerApp::new: the defaults, then the configuration found, if any. *)
Init ==
    /\ files \in [Paths -> DiskFiles]
    /\ configPath = NoPath
    /\ IF Found(files) = {}
       THEN /\ form = FromConfig(NoSource)
            /\ chainSource = NoSource
            /\ status = "None"
            /\ loadedFrom = NoPath
       ELSE \E i \in Found(files) :
              /\ \A j \in Found(files) : i <= j
              /\ form = FromConfig(ChainOf(files[SearchOrder[i]]))
              /\ chainSource = ChainOf(files[SearchOrder[i]])
              /\ status = "Ok"
              /\ loadedFrom = SearchOrder[i]

(* Load Config: a file picked in the dialog (it exists) is loaded.        *)
LoadConfig(p) ==
    /\ files[p].exists
    /\ IF Loads(files[p])
       THEN /\ chainSource' = ChainOf(files[p])
            /\ form' = FromConfig(ChainOf(files[p]))
            /\ configPath' = p
            /\ status' = "Ok"
            /\ loadedFrom' = p
       ELSE /\ status' = "Err"
            /\ UNCHANGED <<form, chainSource, configPath, loadedFrom>>
    /\ UNCHANGED files

(* The type combo box of render_chain_source_editor: it offers the kinds  *)
(* of ChainSourceType::ALL, never None (a form is of type None only when   *)
(* it was loaded from a configuration without a chain source).            *)
SelectType(t) ==
    /\ form' = [form EXCEPT !.source_type = t]
    /\ UNCHANGED <<files, chainSource, configPath, status, loadedFrom>>

(* The text fields of the selected type.                                  *)
EditField(v) ==
    /\ form.source_type # "None"
    /\ form' = IF form.source_type = "Bitcoind" THEN [form EXCEPT !.rpc = v]
                                                ELSE [form EXCEPT !.url = v]
    /\ UNCHANGED <<files, chainSource, configPath, status, loadedFrom>>

(* save_chain_source(p, form.to_config()) and its outcome.                 *)
SaveTo(p) ==
    IF Saves(files[p])
    THEN /\ files' = [files EXCEPT ![p] = Written(@, ToConfig(form))]
         /\ chainSource' = ToConfig(form)
         /\ status' = "Ok"
    ELSE /\ status' = "Err"
         /\ UNCHANGED <<files, chainSource>>

(* Save: to the loaded file, or an error when none was loaded.            *)
Save ==
    /\ IF configPath = NoPath
       THEN /\ status' = "Err"
            /\ UNCHANGED <<files, chainSource>>
       ELSE SaveTo(configPath)
    /\ UNCHANGED <<form, configPath, loadedFrom>>

(* Save As: to any path typed in the dialog; it becomes the config path   *)
(* when the save succeeds.                                                 *)
SaveAs(p) ==
    /\ SaveTo(p)
    /\ configPath' = IF Saves(files[p]) THEN p ELSE configPath
    /\ loadedFrom' = IF Saves(files[p]) THEN p ELSE loadedFrom
    /\ UNCHANGED form

Next ==
    \/ \E p \in Paths : LoadConfig(p) \/ SaveAs(p)
    \/ \E t \in Kinds : SelectType(t)
    \/ \E v \in Text : EditField(v)
    \/ Save

Spec == Init /\ [][Next]_vars

-----------------------------------------------------------------------------
TypeOK ==
    /\ files \in [Paths -> Files]
    /\ form \in Forms
    /\ chainSource \in Configs
    /\ configPath \in Paths \cup {NoPath}
    /\ status \in {"None", "Ok", "Err"}
    /\ loadedFrom \in Paths \cup {NoPath}

(* What Save promises: while a config file is in use and loads, the chain *)
(* source the app displays is the one that file loads.  Loading through   *)
(* from_config and saving through to_config and save_chain_source must    *)
(* agree on every type, and save_chain_source must drop the sections of   *)
(* the other types, which try_from would otherwise prefer.                 *)
DisplayedMatchesFile ==
    (configPath # NoPath /\ Loads(files[configPath]))
        => ChainOf(files[configPath]) = chainSource

(* What the start-up message "Config loaded from ldk-server-config.toml"  *)
(* and the Save button ("saves to current file or prompts if none loaded") *)
(* promise together: once the settings came from a file, Save writes to    *)
(* that file.  LdkServerApp::new loads the file it finds but does not set  *)
(* config_file_path, so Save answers "No config file loaded".              *)
SaveTargetsLoadedFile ==
    loadedFrom # NoPath => configPath = loadedFrom

=============================================================================
