SPECIFICATION Spec
CONSTANTS
    Commands <- AllTestsCommands
    Parameters <- MCParameters
    Resources <- MCResources
    Numerals <- MCNumerals
    Deployments <- MCDeployments
    OtherServices <- MCOtherServices
    ServiceTools <- SharedTools
    TestNames <- MCTestNames
    EnableForce = TRUE
    OptionWords <- MCOptionWords
    PlayFiles <- MCPlayFiles
    GetInitialParams <- get_initial_params
    MergeJsonData <- merge_json_data
    FilterParamsByContext <- filter_params_by_context
    ParseParameterArgument <- parse_parameter_argument
    BuildParamOptions <- build_param_options
    ValidateInside <- validate_inside
    StatusParamsBuildOutput <- status_params_build_output
    GetRequiredParametersPaths <- get_required_parameters_paths
INVARIANT
    AllTestsRun
