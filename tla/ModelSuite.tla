------------------------------ MODULE ModelSuite ------------------------------
(***************************************************************************)
(* The catalogues of local models and what openIME makes of a machine: the *)
(* budget of memory it leaves to the three models, the labels the settings *)
(* page shows and the models it recommends (llm_catalog.rs, system.rs,     *)
(* asr_catalog.rs).  Sizes are in MiB, rounded up; a label is its `kind'.  *)
(***************************************************************************)
EXTENDS Naturals, Sequences, FiniteSets

Nothing == ""   \* the empty id: no model

\* A model of the catalogues: the one its file falls back to when the binding
\* cannot load it, and the memory it takes.
Entry(fallback, rss) == [fallback |-> fallback, rss |-> rss]
polish_catalog ==
  [qwen08 |-> Entry("qwen3_06", 615), qwen2 |-> Entry("qwen3_17", 1536),
   qwen4  |-> Entry("qwen3_4", 2868)]
translate_catalog == [milmmt |-> Entry(Nothing, 1127), hymt |-> Entry(Nothing, 1434)]
fallback_catalog ==
  [qwen3_06 |-> Entry(Nothing, 615), qwen3_17 |-> Entry(Nothing, 1332),
   qwen3_4  |-> Entry(Nothing, 2663)]

PolishIds == DOMAIN polish_catalog
TranslateIds == DOMAIN translate_catalog
Ids == PolishIds \cup TranslateIds \cup DOMAIN fallback_catalog

llm_model_by_id(id) ==
  CASE id \in PolishIds -> polish_catalog[id]
    [] id \in TranslateIds -> translate_catalog[id]
    [] OTHER -> fallback_catalog[id]

\* llm_files: the model's file and its fallback's; a file has its model's name.
llm_files(id) == <<id>> \o (IF llm_model_by_id(id).fallback = Nothing THEN <<>>
                            ELSE <<llm_model_by_id(id).fallback>>)

FilesOf(id) == {llm_files(id)[i] : i \in DOMAIN llm_files(id)}

is_llm_model_installed(id, disk) == FilesOf(id) \cap disk # {}

\* resolve_llm_id: the first of the two that is there and has not failed to
\* load; the preferred one when neither is.
resolve_llm_id(id, disk, unsupported) ==
  LET fallback == llm_model_by_id(id).fallback
      fine(f) == f \in disk \ unsupported
  IN  IF ~fine(id) /\ fine(fallback) THEN fallback ELSE id

\* delete_fallback_id, as delete_llm_model calls it for either catalogue.
delete_fallback_id(catalog, deleted, disk) ==
  {m \in catalog \ {deleted} : is_llm_model_installed(m, disk)}

-----------------------------------------------------------------------------
(* The files of the speech models; a file is <<directory, below it, name>>. *)

AsrIds == {"sensevoice", "funasr_int8", "funasr_fp16"}

In(dir, sub, names) == {<<dir, sub, n>> : n \in names}

llm_file(id) == IF id = "funasr_int8" THEN "llm.int8.onnx" ELSE "llm.fp16.onnx"

\* asr_model_files: what an installation downloads and counts, the detector of
\* silences that all models share among it.
asr_model_files(id) ==
  (CASE id = "sensevoice" -> In(id, "", {"model.int8.onnx", "tokens.txt"})
     [] id \in {"funasr_int8", "funasr_fp16"} ->
          In(id, "", {"embedding.int8.onnx", "encoder_adaptor.int8.onnx", llm_file(id)})
          \cup In(id, "Qwen3-0.6B", {"tokenizer.json", "vocab.json", "merges.txt"})
     [] OTHER -> {})
  \cup In("vad", "", {"silero_vad.onnx"})

is_asr_model_installed(id, disk) == asr_model_files(id) \subseteq disk

\* delete_local_asr_model removes the model's own directory.
delete_local_asr_model(id, disk) == {f \in disk : f[1] # id}

\* The ids an old configuration may hold.
OldAsrIds == {"offline", "realtime", "zipformer", "firered"}

\* Mutant of normalize_asr_model_id: a model that is withdrawn keeps its id.
normalize_all_but_firered(id) ==
  IF id \in OldAsrIds \ {"firered"} THEN "sensevoice" ELSE id

\* normalize_asr_model_id: old modes and withdrawn models.
normalize_asr_model_id(id) == IF id \in OldAsrIds THEN "sensevoice" ELSE id

\* connect of sherpa.rs: the files that SenseVoicePaths, connect_offline_with_paths
\* and SherpaModelPaths look for; the tokenizer by its directory only.
connects(id, disk) ==
  CASE id = "sensevoice" -> In(id, "", {"model.int8.onnx", "tokens.txt"}) \subseteq disk
    [] id \in {"funasr_int8", "funasr_fp16"} ->
         /\ In(id, "", {"embedding.int8.onnx", "encoder_adaptor.int8.onnx",
                        llm_file(id)}) \subseteq disk
         /\ \E f \in disk : f[1] = id /\ f[2] = "Qwen3-0.6B"
    [] OTHER ->
         In(id, "", {"encoder.int8.onnx", "decoder.int8.onnx", "tokens.txt"})
         \cup In("vad", "", {"silero_vad.onnx"}) \subseteq disk

-----------------------------------------------------------------------------
(* The machine. *)

Chips == {"m4", "m4pro", "m5", "m5pro", "other"}
Machine == [mem : Nat, disk : Nat, apple : BOOLEAN, chip : Chips]
Gb(mib) == mib \div 1024

\* os_reserve and combo_budget; u64 subtraction saturates.
os_reserve(mem) ==
  CASE Gb(mem) <= 8 -> IF mem > 2560 THEN mem - 2560 ELSE 0
    [] Gb(mem) \in 9..16  -> 6 * 1024
    [] Gb(mem) \in 17..32 -> 8 * 1024
    [] OTHER -> 10 * 1024
combo_budget(m) == IF m.mem > os_reserve(m.mem) THEN m.mem - os_reserve(m.mem) ELSE 0

\* chip_row: by the chip where the table has it, else by memory.
chip_row(m) ==
  CASE m.apple /\ m.chip \in {"m4pro", "m5pro"} -> 3
    [] m.apple /\ m.chip = "m5" -> 2
    [] m.apple /\ m.chip = "m4" -> 1
    [] OTHER -> IF Gb(m.mem) <= 16 THEN 1 ELSE IF Gb(m.mem) <= 36 THEN 2 ELSE 3

\* est_tps, in tokens per second.
est_tps(row, id) ==
  [qwen08 |-> <<66, 85, 150>>, qwen3_06 |-> <<66, 85, 150>>,
   qwen2 |-> <<39, 50, 89>>, qwen3_17 |-> <<29, 37, 89>>,
   qwen4 |-> <<23, 29, 52>>, qwen3_4 |-> <<17, 17, 40>>,
   milmmt |-> <<29, 37, 89>>, hymt |-> <<33, 43, 76>>][id][row]

asr_rss_bytes(asr) ==
  CASE asr = "funasr_int8" -> 1229 [] asr = "funasr_fp16" -> 2048 [] OTHER -> 717
asr_approx_size(asr) ==
  CASE asr = "funasr_int8" -> 948 [] asr = "funasr_fp16" -> 1514 [] OTHER -> 229
llm_rss_bytes(id) == IF id = Nothing THEN 0 ELSE llm_model_by_id(id).rss

\* compute_combo_tag of a model beside the speech model and the other one.
compute_combo_tag(m, asr, this, other) ==
  LET combo == asr_rss_bytes(asr) + llm_rss_bytes(this) + llm_rss_bytes(other)
      tps == est_tps(chip_row(m), this)
  IN  CASE Gb(m.mem) = 0 -> "unknown"
        [] Gb(m.mem) > 0 /\ (combo > combo_budget(m) \/ tps < 15) -> "not_recommended"
        [] Gb(m.mem) > 0 /\ combo <= combo_budget(m) /\ tps >= 15 ->
             IF tps < 25 \/ combo > (combo_budget(m) * 85) \div 100
             THEN "usable" ELSE "suitable"

\* compute_model_tag of a speech model: the disk first, then three sizes.
compute_model_tag(size, m) ==
  LET gb == Gb(m.mem)
      full == Gb(m.disk) > 0 /\ Gb(m.disk) * 1024 < 2 * size
  IN  CASE gb = 0 -> "unknown"
        [] gb > 0 /\ full -> "not_recommended"
        [] gb > 0 /\ ~full /\ size < 300 -> "suitable"
        [] gb > 0 /\ ~full /\ size \in 300..1100 ->
             IF gb >= 16 THEN "suitable" ELSE IF gb >= 8 THEN "usable"
             ELSE "not_recommended"
        [] OTHER -> IF gb >= 32 THEN "suitable" ELSE IF gb >= 16 THEN "usable"
                    ELSE "not_recommended"

\* recommend_defaults: weak, middle and strong machines.
recommend_defaults(m) ==
  CASE Gb(m.mem) <= 8 \/ (~m.apple /\ Gb(m.mem) < 16) ->
         [asr |-> "sensevoice", polish |-> "qwen08", translate |-> Nothing,
          use_llm_fallback |-> TRUE]
    [] Gb(m.mem) > 31 /\ m.apple ->
         [asr |-> "funasr_int8", polish |-> "qwen4", translate |-> "milmmt",
          use_llm_fallback |-> FALSE]
    [] OTHER ->
         [asr |-> "sensevoice", polish |-> "qwen2", translate |-> "milmmt",
          use_llm_fallback |-> FALSE]

\* suite_used_bytes: with "translate by the polish model" the other is not
\* counted.
suite_used_bytes(r) ==
  asr_rss_bytes(r.asr) + llm_rss_bytes(r.polish)
  + (IF r.use_llm_fallback THEN 0 ELSE llm_rss_bytes(r.translate))
=============================================================================
