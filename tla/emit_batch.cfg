SPECIFICATION EmitSpec
CONSTANTS
    Reports <- MCReports
    Agents <- MCAgents
INVARIANTS
    AgentReads
    TagsSurvive
    NotesComeFirst
