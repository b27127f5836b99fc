SPECIFICATION Spec
CONSTANTS
    Cable = {1, 2}
    Device <- MCDevice
    EndsOf <- MCEndsOf
    TubeOf <- MCTubeOf
    RibbonOf <- MCRibbonOf
    PanelAt <- MCPanelAt
    Caption = {"east", "long"}
    TooLong = {"long"}
    FrontSchemes <- MCFrontSchemes
    RearSchemes <- MCRearSchemes
    LabelScheme <- MCLabelScheme
    MaxEdit = 1
INVARIANTS PlanApplies NamingSettles 
CHECK_DEADLOCK FALSE
