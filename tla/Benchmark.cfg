\* Every branch of read_args, one id, and 'all' over the real list.
SPECIFICATION Spec
CONSTANTS
    EXPERIMENTS <- MCExperiments
    HelperFiles <- MCHelperFiles
    Argvs <- MCArgvs
    NoArg = NoArg
INVARIANT TypeOK
INVARIANT RunsAreTheSelection
