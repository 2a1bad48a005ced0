---------------------------- MODULE CatalogGenAI ----------------------------
(***************************************************************************)
(* The tools of evaluation, simulation, custom models, inference and the   *)
(* model catalog: what each handler asks of its arguments and which        *)
(* requests it sends to the DigitalOcean API (first the handlers, in the   *)
(* vocabulary of ToolContract, then what Tools() registers: the name, the  *)
(* hints, the arguments the schema requires, the handler).                 *)
(***************************************************************************)
EXTENDS ToolContract
-----------------------------------------------------------------------------
(* pkg/registry/genai/evaluation_tools.go                                  *)

GenAIListEvaluationMetrics == Reads
GenAIListEvaluationTestCases ==
    SomeOf({"agent_workspace_name", "workspace_uuid"}, Reads)
GenAICreateEvaluationDataset ==
    Demands({"name"}, OneOf({"file_content", "file_path", "file_url"}, Upload))
GenAICreateEvaluationTestCase ==
    Demands({"dataset_uuid", "name"}, SomeOf({"metrics", "star_metric"},
      SomeOf({"agent_workspace_name", "workspace_uuid"}, Creates)))
GenAIUpdateEvaluationTestCase == Demands({"test_case_uuid"}, Sets)
GenAIRunEvaluationTestCase ==
    Demands({"run_name", "test_case_uuid"},
      SomeOf({"agent_deployment_names", "agent_uuids"}, Creates))
GenAIGetEvaluationRun == Demands({"evaluation_run_uuid"}, Reads)
GenAIRunEvaluationWorkflow ==
    Demands({"run_name", "test_case_name", "workspace_name"},
      SomeOf({"agent_deployment_names", "agent_uuids"},
      OneOf({"dataset_file_content", "dataset_file_path", "dataset_file_url"},
      Reads ++ Upload ++ Reads ++ Either(Creates, Sets) ++ Starts ++ Reads)))

EvaluationTools == {
    Tool("genai-list-evaluation-metrics", HintsRead,
         {}, GenAIListEvaluationMetrics),
    Tool("genai-list-evaluation-test-cases", HintsRead,
         {}, GenAIListEvaluationTestCases),
    Tool("genai-create-evaluation-dataset", HintsCreate,
         {"name"}, GenAICreateEvaluationDataset),
    Tool("genai-create-evaluation-test-case", HintsCreate,
         {"dataset_uuid", "name"}, GenAICreateEvaluationTestCase),
    Tool("genai-update-evaluation-test-case", HintsToggle,
         {"test_case_uuid"}, GenAIUpdateEvaluationTestCase),
    Tool("genai-run-evaluation-test-case", HintsCreate,
         {"run_name", "test_case_uuid"}, GenAIRunEvaluationTestCase),
    Tool("genai-get-evaluation-run", HintsRead,
         {"evaluation_run_uuid"}, GenAIGetEvaluationRun),
    Tool("genai-run-evaluation-workflow", HintsAction,
         {"run_name", "test_case_name", "workspace_name"},
           GenAIRunEvaluationWorkflow) }
-----------------------------------------------------------------------------
(* pkg/registry/genai/model_evaluation_tools.go                            *)

GenAIModelEvalListMetrics == Reads
GenAIModelEvalListDatasets == Reads
GenAIModelEvalListPresets == Reads
GenAIModelEvalGetPreset == Demands({"eval_preset_uuid"}, Reads)
GenAIModelEvalCreateDataset ==
    Demands({"name"}, OneOf({"file_content", "file_path", "file_url"}, Upload))
GenAIModelEvalCreateRun ==
    Demands({"candidate_model_name", "name"}, Checks({"user_message"},
      SomeOf({"eval_preset_uuid", "judge_model_name"}, Either(Reads, Reads ++
      Creates))))
GenAIModelEvalListRuns == Reads
GenAIModelEvalGetRun == Demands({"eval_run_uuid"}, Reads)
GenAIModelEvalUpdateRun == Demands({"eval_run_uuid", "name"}, Sets)
GenAIModelEvalGetResultsDownloadURL == Demands({"eval_run_uuid"}, Reads)
GenAIModelEvalDeleteRun ==
    Demands({"confirm_deletion", "eval_run_uuid"}, Deletes)
GenAIModelEvalCancelRun == Demands({"confirm_cancel", "eval_run_uuid"}, Sets)
GenAIModelEvalDeletePreset ==
    Demands({"confirm_deletion", "eval_preset_uuid"}, Deletes)
GenAIModelEvalDeleteDataset ==
    Demands({"confirm_deletion", "dataset_uuid"}, Deletes)
GenAIModelEvalCreateCustomMetric ==
    Demands({"metric_name", "scoring_prompt"}, Creates)
GenAIModelEvalUpdateCustomMetric ==
    Demands({"metric_uuid"}, SomeOf(
      {"description", "metric_name", "requires_ground_truth", "scoring_prompt"},
      Sets))
GenAIModelEvalDeleteCustomMetric ==
    Demands({"confirm_deletion", "metric_uuid"}, Deletes)
GenAIModelEvalRunWorkflow ==
    Demands({"candidate_model_name", "judge_model_name", "name"},
      Checks({"user_message"},
      OneOf({"dataset_file_content", "dataset_file_path", "dataset_file_url"},
      Either(Reads, Reads ++ Upload ++ Reads ++ Starts ++ Reads))))

ModelEvaluationTools == {
    Tool("genai-model-eval-list-metrics", HintsRead,
         {}, GenAIModelEvalListMetrics),
    Tool("genai-model-eval-list-datasets", HintsRead,
         {}, GenAIModelEvalListDatasets),
    Tool("genai-model-eval-list-presets", HintsRead,
         {}, GenAIModelEvalListPresets),
    Tool("genai-model-eval-get-preset", HintsRead,
         {"eval_preset_uuid"}, GenAIModelEvalGetPreset),
    Tool("genai-model-eval-create-dataset", HintsCreate,
         {"name"}, GenAIModelEvalCreateDataset),
    Tool("genai-model-eval-create-run", HintsCreate,
         {"candidate_model_name", "name"}, GenAIModelEvalCreateRun),
    Tool("genai-model-eval-list-runs", HintsRead, {}, GenAIModelEvalListRuns),
    Tool("genai-model-eval-get-run", HintsRead,
         {"eval_run_uuid"}, GenAIModelEvalGetRun),
    Tool("genai-model-eval-update-run", HintsToggle,
         {"eval_run_uuid", "name"}, GenAIModelEvalUpdateRun),
    Tool("genai-model-eval-get-results-download-url", HintsRead,
         {"eval_run_uuid"}, GenAIModelEvalGetResultsDownloadURL),
    Tool("genai-model-eval-delete-run", HintsDelete,
         {"confirm_deletion", "eval_run_uuid"}, GenAIModelEvalDeleteRun),
    Tool("genai-model-eval-cancel-run", HintsToggle,
         {"confirm_cancel", "eval_run_uuid"}, GenAIModelEvalCancelRun),
    Tool("genai-model-eval-delete-preset", HintsDelete,
         {"confirm_deletion", "eval_preset_uuid"}, GenAIModelEvalDeletePreset),
    Tool("genai-model-eval-delete-dataset", HintsDelete,
         {"confirm_deletion", "dataset_uuid"}, GenAIModelEvalDeleteDataset),
    Tool("genai-model-eval-create-custom-metric", HintsCreate,
         {"metric_name", "scoring_prompt"}, GenAIModelEvalCreateCustomMetric),
    Tool("genai-model-eval-update-custom-metric", HintsToggle,
         {"metric_uuid"}, GenAIModelEvalUpdateCustomMetric),
    Tool("genai-model-eval-delete-custom-metric", HintsDelete,
         {"confirm_deletion", "metric_uuid"},
           GenAIModelEvalDeleteCustomMetric),
    Tool("genai-model-eval-run-workflow", HintsAction,
         {"candidate_model_name", "judge_model_name", "name"},
           GenAIModelEvalRunWorkflow) }
-----------------------------------------------------------------------------
(* pkg/registry/genai/simulation_tools.go                                  *)

GenAISimulationListScenarioSets == Reads
GenAISimulationGetScenarioSet == Demands({"scenario_set_uuid"}, Reads)
GenAISimulationCreateScenarioSet ==
    Demands({"name"}, Checks({"scenarios"}, OneOf({"file_path", "scenarios"},
      Either(Creates, Upload))))
GenAISimulationGenerateScenarioSet ==
    Demands({"goal_description", "name"}, Creates)
GenAISimulationListScenarios == Demands({"scenario_set_uuid"}, Reads)
GenAISimulationGetScenarioSetDownloadURL ==
    Demands({"scenario_set_uuid"}, Reads)
GenAISimulationUpdateScenarioSet ==
    Demands({"scenario_set_uuid"}, Checks({"scenarios"},
      SomeOf({"name", "scenarios"}, Sets)))
GenAISimulationDeleteScenarioSet ==
    Demands({"confirm_deletion", "scenario_set_uuid"}, Deletes)
GenAISimulationListScenarioLibrary == Reads
GenAISimulationListScenarioLibraryScenarios ==
    Demands({"library_scenario_uuid"}, Reads)
GenAISimulationCreateScenarioSetFromLibrary ==
    Demands({"library_scenario_uuid"}, Creates)
GenAISimulationCreateRun ==
    Demands({"agent_uuid", "scenario_set_uuid"}, Creates)
GenAISimulationListRuns == Reads
GenAISimulationGetRun == Demands({"run_uuid"}, Reads)
GenAISimulationUpdateRun == Demands({"name", "run_uuid"}, Sets)
GenAISimulationCancelRun == Demands({"confirm_cancel", "run_uuid"}, Sets)
GenAISimulationDeleteRun == Demands({"confirm_deletion", "run_uuid"}, Deletes)
GenAISimulationListEpisodes == Demands({"run_uuid"}, Reads)
GenAISimulationGetEpisode == Demands({"episode_uuid", "run_uuid"}, Reads)
GenAISimulationGetEpisodeTrajectory ==
    Demands({"episode_uuid", "run_uuid"}, Reads)
GenAISimulationGetEpisodeTrajectoryURL ==
    Demands({"episode_uuid", "run_uuid"}, Reads)

SimulationTools == {
    Tool("genai-simulation-list-scenario-sets", HintsRead,
         {}, GenAISimulationListScenarioSets),
    Tool("genai-simulation-get-scenario-set", HintsRead,
         {"scenario_set_uuid"}, GenAISimulationGetScenarioSet),
    Tool("genai-simulation-create-scenario-set", HintsCreate,
         {"name"}, GenAISimulationCreateScenarioSet),
    Tool("genai-simulation-generate-scenario-set", HintsCreate,
         {"goal_description", "name"}, GenAISimulationGenerateScenarioSet),
    Tool("genai-simulation-list-scenarios", HintsRead,
         {"scenario_set_uuid"}, GenAISimulationListScenarios),
    Tool("genai-simulation-get-scenario-set-download-url", HintsRead,
         {"scenario_set_uuid"}, GenAISimulationGetScenarioSetDownloadURL),
    Tool("genai-simulation-update-scenario-set", HintsToggle,
         {"scenario_set_uuid"}, GenAISimulationUpdateScenarioSet),
    Tool("genai-simulation-delete-scenario-set", HintsDelete,
         {"confirm_deletion", "scenario_set_uuid"},
           GenAISimulationDeleteScenarioSet),
    Tool("genai-simulation-list-scenario-library", HintsRead,
         {}, GenAISimulationListScenarioLibrary),
    Tool("genai-simulation-list-scenario-library-scenarios", HintsRead,
         {"library_scenario_uuid"},
           GenAISimulationListScenarioLibraryScenarios),
    Tool("genai-simulation-create-scenario-set-from-library", HintsCreate,
         {"library_scenario_uuid"},
           GenAISimulationCreateScenarioSetFromLibrary),
    Tool("genai-simulation-create-run", HintsCreate,
         {"agent_uuid", "scenario_set_uuid"}, GenAISimulationCreateRun),
    Tool("genai-simulation-list-runs", HintsRead, {}, GenAISimulationListRuns),
    Tool("genai-simulation-get-run", HintsRead,
         {"run_uuid"}, GenAISimulationGetRun),
    Tool("genai-simulation-update-run", HintsToggle,
         {"name", "run_uuid"}, GenAISimulationUpdateRun),
    Tool("genai-simulation-cancel-run", HintsToggle,
         {"confirm_cancel", "run_uuid"}, GenAISimulationCancelRun),
    Tool("genai-simulation-delete-run", HintsDelete,
         {"confirm_deletion", "run_uuid"}, GenAISimulationDeleteRun),
    Tool("genai-simulation-list-episodes", HintsRead,
         {"run_uuid"}, GenAISimulationListEpisodes),
    Tool("genai-simulation-get-episode", HintsRead,
         {"episode_uuid", "run_uuid"}, GenAISimulationGetEpisode),
    Tool("genai-simulation-get-episode-trajectory", HintsRead,
         {"episode_uuid", "run_uuid"}, GenAISimulationGetEpisodeTrajectory),
    Tool("genai-simulation-get-episode-trajectory-url", HintsRead,
         {"episode_uuid", "run_uuid"}, GenAISimulationGetEpisodeTrajectoryURL) }
-----------------------------------------------------------------------------
(* pkg/registry/genai-custom-models/custom_models_tools.go                 *)

GenAIModelsUnifiedSearch == May(Reads) ++ May(Reads)
GenAICustomModelsList == Reads
GenAICustomModelsImport ==
    Demands({"accept_terms_and_conditions", "source_ref", "source_type"},
      Either(Creates, Direct(Reads) ++ Creates))
GenAICustomModelsUpdateMetadata ==
    Demands({"uuid"}, Checks({"input_modalities", "output_modalities"},
      SomeOf(
      {"description", "input_modalities", "name", "output_modalities", "tags"},
      Sets)))
GenAICustomModelsGet == Demands({"uuid"}, Reads)
\* Without confirm_deletion it refuses once it has listed the models.
GenAICustomModelsDelete ==
    Demands({"confirm_deletion"}, Checks({"name"}, SomeOf({"name", "uuid"},
      Reads ++ Reads ++ Deletes)))

CustomModelsTools == {
    Tool("genai-models-unified-search", HintsRead,
         {}, GenAIModelsUnifiedSearch),
    Tool("genai-custom-models-list", HintsRead, {}, GenAICustomModelsList),
    Tool("genai-custom-models-import", HintsCreate,
         {"accept_terms_and_conditions", "source_ref", "source_type"},
           GenAICustomModelsImport),
    Tool("genai-custom-models-update-metadata", HintsToggle,
         {"uuid"}, GenAICustomModelsUpdateMetadata),
    Tool("genai-custom-models-get", HintsRead, {"uuid"}, GenAICustomModelsGet),
    Tool("genai-custom-models-delete", HintsDelete,
         {}, GenAICustomModelsDelete) }
-----------------------------------------------------------------------------
(* pkg/registry/genai-batchinference/batch_inference_tools.go              *)

GenAIBatchInferenceCreateFile == ClientFirst(Demands({"FileName"}, Reads))
GenAIBatchInferenceUploadFile ==
    ClientFirst(Demands({"Content", "UploadURL"}, Direct(Sets)))
GenAIBatchInferenceCreate ==
    ClientFirst(Demands({"CompletionWindow", "FileID", "Provider"}, Creates))
GenAIBatchInferenceGet == ClientFirst(Demands({"BatchID"}, Reads))
GenAIBatchInferenceGetResults == ClientFirst(Demands({"BatchID"}, Reads))
GenAIBatchInferenceCancel == ClientFirst(Demands({"BatchID"}, Sets))
GenAIBatchInferenceList == Reads

BatchInferenceTools == {
    Tool("genai-batch-inference-create-file", HintsCreate,
         {"FileName"}, GenAIBatchInferenceCreateFile),
    Tool("genai-batch-inference-upload-file", HintsCreate,
         {"Content", "UploadURL"}, GenAIBatchInferenceUploadFile),
    Tool("genai-batch-inference-create", HintsCreate,
         {"CompletionWindow", "FileID", "Provider"},
           GenAIBatchInferenceCreate),
    Tool("genai-batch-inference-get", HintsRead,
         {"BatchID"}, GenAIBatchInferenceGet),
    Tool("genai-batch-inference-get-results", HintsRead,
         {"BatchID"}, GenAIBatchInferenceGetResults),
    Tool("genai-batch-inference-cancel", HintsToggle,
         {"BatchID"}, GenAIBatchInferenceCancel),
    Tool("genai-batch-inference-list", HintsRead, {}, GenAIBatchInferenceList) }
-----------------------------------------------------------------------------
(* pkg/registry/genai-inferencerouter/router_tools.go                      *)

GenAIInferenceRouterCreate ==
    Demands({"FallbackModels", "Name"}, Values({"PoliciesJson"}, Creates))
GenAIInferenceRouterList == Reads
GenAIInferenceRouterGet == Demands({"UUID"}, Reads)
GenAIInferenceRouterDelete == Demands({"UUID"}, Deletes)
GenAIInferenceRouterTaskPresets == Reads
GenAIInferenceRouterUpdate ==
    Demands({"UUID"}, Checks({"PoliciesJson"},
      SomeOf({"Description", "FallbackModels", "Name", "PoliciesJson"}, Sets)))

RouterTools == {
    Tool("genai-inference-router-create", HintsCreate,
         {"FallbackModels", "Name"}, GenAIInferenceRouterCreate),
    Tool("genai-inference-router-list", HintsRead,
         {}, GenAIInferenceRouterList),
    Tool("genai-inference-router-get", HintsRead,
         {"UUID"}, GenAIInferenceRouterGet),
    Tool("genai-inference-router-delete", HintsDelete,
         {"UUID"}, GenAIInferenceRouterDelete),
    Tool("genai-inference-router-task-presets", HintsRead,
         {}, GenAIInferenceRouterTaskPresets),
    Tool("genai-inference-router-update", HintsToggle,
         {"UUID"}, GenAIInferenceRouterUpdate) }
-----------------------------------------------------------------------------
(* pkg/registry/inference-modelcatalog/model_tools.go                      *)

InferenceModelCatalogSearch == Reads
InferenceModelCatalogGetCard == Demands({"ModelUUID"}, Reads)

ModelTools == {
    Tool("inference-model-catalog-search", HintsRead,
         {}, InferenceModelCatalogSearch),
    Tool("inference-model-catalog-get-card", HintsRead,
         {"ModelUUID"}, InferenceModelCatalogGetCard) }
-----------------------------------------------------------------------------
(* pkg/registry/dedicated-inference/dedicated_inference_tools.go           *)

DedicatedInferenceCreate ==
    ClientFirst(Demands({"ModelDeployments", "Name", "Region"}, Creates))
DedicatedInferenceGet == ClientFirst(Demands({"DedicatedInferenceID"}, Reads))
DedicatedInferenceList == Reads
DedicatedInferenceUpdate ==
    ClientFirst(Demands({"DedicatedInferenceID", "ModelDeployments"}, Sets))
DedicatedInferenceDelete ==
    ClientFirst(Demands({"DedicatedInferenceID"}, Deletes))

DedicatedInferenceTools == {
    Tool("dedicated-inference-create", HintsCreate,
         {"ModelDeployments", "Name", "Region"}, DedicatedInferenceCreate),
    Tool("dedicated-inference-get", HintsRead,
         {"DedicatedInferenceID"}, DedicatedInferenceGet),
    Tool("dedicated-inference-list", HintsRead, {}, DedicatedInferenceList),
    Tool("dedicated-inference-update", HintsToggle,
         {"DedicatedInferenceID"}, DedicatedInferenceUpdate),
    Tool("dedicated-inference-delete", HintsDelete,
         {"DedicatedInferenceID"}, DedicatedInferenceDelete) }
=============================================================================
