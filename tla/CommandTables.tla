--------------------------- MODULE CommandTables ----------------------------
(***************************************************************************)
(* global_simple_intercept/generated.rs: the commands that a layer can     *)
(* intercept, as create_device_commands and create_instance_commands list  *)
(* them. An entry has the features that have the command, core versions    *)
(* and extensions of the enum Extension, and the wrapper that is the local *)
(* function of it, named for the Vulkan command of its comment. The key of *)
(* hooked_commands that an entry looks for is that of its wrapper.         *)
(***************************************************************************)
EXTENDS TLC

\* VulkanCommand, of commands with a wrapper of their own.
Of(features, names) == [n \in names |-> [features |-> features, wrapper |-> n]]

\* VulkanCommand, of those with the wrapper of another.
AliasOf(features, wrappers) ==
  [n \in DOMAIN wrappers |-> [features |-> features, wrapper |-> wrappers[n]]]

-----------------------------------------------------------------------------
(* create_device_commands.                                                 *)

AcquireFullScreenToBeginCommandBuffer ==
  Of({"EXTFullScreenExclusive"}, {"vkAcquireFullScreenExclusiveModeEXT"})
  @@ Of({"ANDROIDNativeBuffer"}, {"vkAcquireImageANDROID"})
  @@ Of({"KHRDeviceGroup", "KHRSwapchain"}, {"vkAcquireNextImage2KHR"})
  @@ Of({"KHRSwapchain"}, {"vkAcquireNextImageKHR"})
  @@ Of({"INTELPerformanceQuery"}, {"vkAcquirePerformanceConfigurationINTEL"})
  @@ Of({"KHRPerformanceQuery"}, {"vkAcquireProfilingLockKHR"})
  @@ Of({"1.0"}, {"vkAllocateCommandBuffers", "vkAllocateDescriptorSets", "vkAllocateMemory",
       "vkBeginCommandBuffer"})

BindAccelerationStructureToBuildMicromapsE ==
  Of({"NVRayTracing"}, {"vkBindAccelerationStructureMemoryNV"})
  @@ Of({"1.0"}, {"vkBindBufferMemory", "vkBindImageMemory"})
  @@ Of({"1.1"}, {"vkBindBufferMemory2", "vkBindImageMemory2"})
  @@ Of({"NVOpticalFlow"}, {"vkBindOpticalFlowSessionImageNV"})
  @@ Of({"KHRVideoQueue"}, {"vkBindVideoSessionMemoryKHR"})
  @@ Of({"EXTOpacityMicromap"}, {"vkBuildMicromapsEXT"})
  @@ AliasOf({"KHRBindMemory2"}, "vkBindBufferMemory2KHR" :> "vkBindBufferMemory2"
       @@ "vkBindImageMemory2KHR" :> "vkBindImageMemory2")

CmdBeginConditionalToCmdBeginVideo ==
  Of({"EXTConditionalRendering"}, {"vkCmdBeginConditionalRenderingEXT"})
  @@ Of({"EXTDebugUtils"}, {"vkCmdBeginDebugUtilsLabelEXT"})
  @@ Of({"1.0"}, {"vkCmdBeginQuery", "vkCmdBeginRenderPass"})
  @@ Of({"EXTTransformFeedback"}, {"vkCmdBeginQueryIndexedEXT",
       "vkCmdBeginTransformFeedbackEXT"})
  @@ Of({"1.2"}, {"vkCmdBeginRenderPass2"})
  @@ Of({"1.3"}, {"vkCmdBeginRendering"})
  @@ Of({"KHRVideoQueue"}, {"vkCmdBeginVideoCodingKHR"})
  @@ AliasOf({"KHRCreateRenderpass2"}, "vkCmdBeginRenderPass2KHR" :> "vkCmdBeginRenderPass2")
  @@ AliasOf({"KHRDynamicRendering"}, "vkCmdBeginRenderingKHR" :> "vkCmdBeginRendering")

CmdBindDescriptorToCmdBindVertex ==
  Of({"EXTDescriptorBuffer"}, {"vkCmdBindDescriptorBufferEmbeddedSamplersEXT",
       "vkCmdBindDescriptorBuffersEXT"})
  @@ Of({"1.0"}, {"vkCmdBindDescriptorSets", "vkCmdBindIndexBuffer", "vkCmdBindPipeline",
       "vkCmdBindVertexBuffers"})
  @@ Of({"HUAWEIInvocationMask"}, {"vkCmdBindInvocationMaskHUAWEI"})
  @@ Of({"NVDeviceGeneratedCommands"}, {"vkCmdBindPipelineShaderGroupNV"})
  @@ Of({"NVShadingRateImage"}, {"vkCmdBindShadingRateImageNV"})
  @@ Of({"EXTTransformFeedback"}, {"vkCmdBindTransformFeedbackBuffersEXT"})
  @@ Of({"1.3"}, {"vkCmdBindVertexBuffers2"})
  @@ AliasOf({"EXTExtendedDynamicState", "EXTShaderObject"},
       "vkCmdBindVertexBuffers2EXT" :> "vkCmdBindVertexBuffers2")

CmdBlitImageToCmdControlVideo ==
  Of({"1.0"}, {"vkCmdBlitImage", "vkCmdClearAttachments", "vkCmdClearColorImage",
       "vkCmdClearDepthStencilImage"})
  @@ Of({"1.3"}, {"vkCmdBlitImage2"})
  @@ Of({"NVRayTracing"}, {"vkCmdBuildAccelerationStructureNV"})
  @@ Of({"EXTOpacityMicromap"}, {"vkCmdBuildMicromapsEXT"})
  @@ Of({"KHRVideoQueue"}, {"vkCmdControlVideoCodingKHR"})
  @@ AliasOf({"KHRCopyCommands2"}, "vkCmdBlitImage2KHR" :> "vkCmdBlitImage2")

CmdCopyAccelerationToCmdCopyImage ==
  Of({"KHRAccelerationStructure"}, {"vkCmdCopyAccelerationStructureKHR",
       "vkCmdCopyAccelerationStructureToMemoryKHR"})
  @@ Of({"NVRayTracing"}, {"vkCmdCopyAccelerationStructureNV"})
  @@ Of({"1.0"}, {"vkCmdCopyBuffer", "vkCmdCopyBufferToImage", "vkCmdCopyImage",
       "vkCmdCopyImageToBuffer"})
  @@ Of({"1.3"}, {"vkCmdCopyBuffer2", "vkCmdCopyBufferToImage2", "vkCmdCopyImage2",
       "vkCmdCopyImageToBuffer2"})
  @@ AliasOf({"KHRCopyCommands2"}, "vkCmdCopyBuffer2KHR" :> "vkCmdCopyBuffer2"
       @@ "vkCmdCopyBufferToImage2KHR" :> "vkCmdCopyBufferToImage2"
       @@ "vkCmdCopyImage2KHR" :> "vkCmdCopyImage2")

CmdCopyImageToCmdDecodeVideo ==
  Of({"NVCopyMemoryIndirect"}, {"vkCmdCopyMemoryIndirectNV",
       "vkCmdCopyMemoryToImageIndirectNV"})
  @@ Of({"KHRAccelerationStructure"}, {"vkCmdCopyMemoryToAccelerationStructureKHR"})
  @@ Of({"EXTOpacityMicromap"}, {"vkCmdCopyMemoryToMicromapEXT", "vkCmdCopyMicromapEXT",
       "vkCmdCopyMicromapToMemoryEXT"})
  @@ Of({"1.0"}, {"vkCmdCopyQueryPoolResults"})
  @@ Of({"NVXBinaryImport"}, {"vkCmdCuLaunchKernelNVX"})
  @@ Of({"EXTDebugMarker"}, {"vkCmdDebugMarkerBeginEXT", "vkCmdDebugMarkerEndEXT",
       "vkCmdDebugMarkerInsertEXT"})
  @@ Of({"KHRVideoDecodeQueue"}, {"vkCmdDecodeVideoKHR"})
  @@ AliasOf({"KHRCopyCommands2"}, "vkCmdCopyImageToBuffer2KHR" :> "vkCmdCopyImageToBuffer2")

CmdDecompressMemoryToCmdDispatchIndirect ==
  Of({"NVMemoryDecompression"}, {"vkCmdDecompressMemoryIndirectCountNV",
       "vkCmdDecompressMemoryNV"})
  @@ Of({"1.0"}, {"vkCmdDispatch", "vkCmdDispatchIndirect"})
  @@ Of({"1.1"}, {"vkCmdDispatchBase"})
  @@ AliasOf({"KHRDeviceGroup"}, "vkCmdDispatchBaseKHR" :> "vkCmdDispatchBase")

CmdDrawToCmdDrawMesh ==
  Of({"1.0"}, {"vkCmdDraw", "vkCmdDrawIndexed", "vkCmdDrawIndexedIndirect",
       "vkCmdDrawIndirect"})
  @@ Of({"1.2"}, {"vkCmdDrawIndexedIndirectCount", "vkCmdDrawIndirectCount"})
  @@ Of({"EXTTransformFeedback"}, {"vkCmdDrawIndirectByteCountEXT"})
  @@ Of({"EXTMeshShader"}, {"vkCmdDrawMeshTasksEXT", "vkCmdDrawMeshTasksIndirectCountEXT"})
  @@ Of({"NVMeshShader"}, {"vkCmdDrawMeshTasksIndirectCountNV"})
  @@ AliasOf({"AMDDrawIndirectCount"},
       "vkCmdDrawIndexedIndirectCountAMD" :> "vkCmdDrawIndexedIndirectCount"
       @@ "vkCmdDrawIndirectCountAMD" :> "vkCmdDrawIndirectCount")
  @@ AliasOf({"KHRDrawIndirectCount"},
       "vkCmdDrawIndexedIndirectCountKHR" :> "vkCmdDrawIndexedIndirectCount"
       @@ "vkCmdDrawIndirectCountKHR" :> "vkCmdDrawIndirectCount")

CmdDrawMeshToCmdEncodeVideo ==
  Of({"EXTMeshShader"}, {"vkCmdDrawMeshTasksIndirectEXT"})
  @@ Of({"NVMeshShader"}, {"vkCmdDrawMeshTasksIndirectNV", "vkCmdDrawMeshTasksNV"})
  @@ Of({"EXTMultiDraw"}, {"vkCmdDrawMultiEXT", "vkCmdDrawMultiIndexedEXT"})
  @@ Of({"KHRVideoEncodeQueue"}, {"vkCmdEncodeVideoKHR"})

CmdEndConditionalToCmdFillBuffer ==
  Of({"EXTConditionalRendering"}, {"vkCmdEndConditionalRenderingEXT"})
  @@ Of({"EXTDebugUtils"}, {"vkCmdEndDebugUtilsLabelEXT"})
  @@ Of({"1.0"}, {"vkCmdEndQuery", "vkCmdEndRenderPass", "vkCmdExecuteCommands",
       "vkCmdFillBuffer"})
  @@ Of({"EXTTransformFeedback"}, {"vkCmdEndQueryIndexedEXT", "vkCmdEndTransformFeedbackEXT"})
  @@ Of({"1.2"}, {"vkCmdEndRenderPass2"})
  @@ Of({"1.3"}, {"vkCmdEndRendering"})
  @@ Of({"KHRVideoQueue"}, {"vkCmdEndVideoCodingKHR"})
  @@ Of({"NVDeviceGeneratedCommands"}, {"vkCmdExecuteGeneratedCommandsNV"})
  @@ AliasOf({"KHRCreateRenderpass2"}, "vkCmdEndRenderPass2KHR" :> "vkCmdEndRenderPass2")
  @@ AliasOf({"KHRDynamicRendering"}, "vkCmdEndRenderingKHR" :> "vkCmdEndRendering")

CmdInsertDebugToCmdPushDescriptor ==
  Of({"EXTDebugUtils"}, {"vkCmdInsertDebugUtilsLabelEXT"})
  @@ Of({"1.0"}, {"vkCmdNextSubpass", "vkCmdPipelineBarrier", "vkCmdPushConstants"})
  @@ Of({"1.2"}, {"vkCmdNextSubpass2"})
  @@ Of({"NVOpticalFlow"}, {"vkCmdOpticalFlowExecuteNV"})
  @@ Of({"1.3"}, {"vkCmdPipelineBarrier2"})
  @@ Of({"NVDeviceGeneratedCommands"}, {"vkCmdPreprocessGeneratedCommandsNV"})
  @@ Of({"KHRPushDescriptor"}, {"vkCmdPushDescriptorSetKHR"})
  @@ Of({"KHRDescriptorUpdateTemplate", "KHRPushDescriptor"},
       {"vkCmdPushDescriptorSetWithTemplateKHR"})
  @@ AliasOf({"KHRCreateRenderpass2"}, "vkCmdNextSubpass2KHR" :> "vkCmdNextSubpass2")
  @@ AliasOf({"KHRSynchronization2"}, "vkCmdPipelineBarrier2KHR" :> "vkCmdPipelineBarrier2")

CmdResetEventToCmdResolveImage2 ==
  Of({"1.0"}, {"vkCmdResetEvent", "vkCmdResetQueryPool", "vkCmdResolveImage"})
  @@ Of({"1.3"}, {"vkCmdResetEvent2", "vkCmdResolveImage2"})
  @@ AliasOf({"KHRSynchronization2"}, "vkCmdResetEvent2KHR" :> "vkCmdResetEvent2")
  @@ AliasOf({"KHRCopyCommands2"}, "vkCmdResolveImage2KHR" :> "vkCmdResolveImage2")

CmdSetAlphaToToCmdSetConservativeRasterization ==
  Of({"EXTExtendedDynamicState3", "EXTShaderObject"}, {"vkCmdSetAlphaToCoverageEnableEXT",
       "vkCmdSetAlphaToOneEnableEXT", "vkCmdSetColorBlendAdvancedEXT",
       "vkCmdSetColorBlendEnableEXT", "vkCmdSetColorBlendEquationEXT",
       "vkCmdSetColorWriteMaskEXT", "vkCmdSetConservativeRasterizationModeEXT"})
  @@ Of({"1.0"}, {"vkCmdSetBlendConstants"})
  @@ Of({"NVDeviceDiagnosticCheckpoints"}, {"vkCmdSetCheckpointNV"})
  @@ Of({"NVShadingRateImage"}, {"vkCmdSetCoarseSampleOrderNV"})
  @@ Of({"EXTColorWriteEnable"}, {"vkCmdSetColorWriteEnableEXT"})

CmdSetCoverageModulationToCmdSetDepthBias ==
  Of({"EXTExtendedDynamicState3", "EXTShaderObject"}, {"vkCmdSetCoverageModulationModeNV",
       "vkCmdSetCoverageModulationTableEnableNV", "vkCmdSetCoverageModulationTableNV",
       "vkCmdSetCoverageReductionModeNV", "vkCmdSetCoverageToColorEnableNV",
       "vkCmdSetCoverageToColorLocationNV"})
  @@ Of({"1.3"}, {"vkCmdSetCullMode", "vkCmdSetDepthBiasEnable"})
  @@ Of({"1.0"}, {"vkCmdSetDepthBias"})
  @@ AliasOf({"EXTExtendedDynamicState", "EXTShaderObject"},
       "vkCmdSetCullModeEXT" :> "vkCmdSetCullMode")
  @@ AliasOf({"EXTExtendedDynamicState2", "EXTShaderObject"},
       "vkCmdSetDepthBiasEnableEXT" :> "vkCmdSetDepthBiasEnable")

CmdSetDepthBoundsToCmdSetDepthWrite ==
  Of({"1.0"}, {"vkCmdSetDepthBounds"})
  @@ Of({"1.3"}, {"vkCmdSetDepthBoundsTestEnable", "vkCmdSetDepthCompareOp",
       "vkCmdSetDepthTestEnable", "vkCmdSetDepthWriteEnable"})
  @@ Of({"EXTExtendedDynamicState3", "EXTShaderObject"}, {"vkCmdSetDepthClampEnableEXT",
       "vkCmdSetDepthClipEnableEXT", "vkCmdSetDepthClipNegativeOneToOneEXT"})
  @@ AliasOf({"EXTExtendedDynamicState", "EXTShaderObject"},
       "vkCmdSetDepthBoundsTestEnableEXT" :> "vkCmdSetDepthBoundsTestEnable"
       @@ "vkCmdSetDepthCompareOpEXT" :> "vkCmdSetDepthCompareOp"
       @@ "vkCmdSetDepthTestEnableEXT" :> "vkCmdSetDepthTestEnable"
       @@ "vkCmdSetDepthWriteEnableEXT" :> "vkCmdSetDepthWriteEnable")

CmdSetDescriptorBufferToCmdSetFrontFace ==
  Of({"EXTDescriptorBuffer"}, {"vkCmdSetDescriptorBufferOffsetsEXT"})
  @@ Of({"1.1"}, {"vkCmdSetDeviceMask"})
  @@ Of({"EXTDiscardRectangles"}, {"vkCmdSetDiscardRectangleEXT"})
  @@ Of({"1.0"}, {"vkCmdSetEvent"})
  @@ Of({"1.3"}, {"vkCmdSetEvent2", "vkCmdSetFrontFace"})
  @@ Of({"NVScissorExclusive"}, {"vkCmdSetExclusiveScissorNV"})
  @@ Of({"EXTExtendedDynamicState3", "EXTShaderObject"},
       {"vkCmdSetExtraPrimitiveOverestimationSizeEXT"})
  @@ Of({"NVFragmentShadingRateEnums"}, {"vkCmdSetFragmentShadingRateEnumNV"})
  @@ Of({"KHRFragmentShadingRate"}, {"vkCmdSetFragmentShadingRateKHR"})
  @@ AliasOf({"KHRDeviceGroup"}, "vkCmdSetDeviceMaskKHR" :> "vkCmdSetDeviceMask")
  @@ AliasOf({"KHRSynchronization2"}, "vkCmdSetEvent2KHR" :> "vkCmdSetEvent2")
  @@ AliasOf({"EXTExtendedDynamicState", "EXTShaderObject"},
       "vkCmdSetFrontFaceEXT" :> "vkCmdSetFrontFace")

CmdSetLineRasterizationToCmdSetPrimitiveRestart ==
  Of({"EXTExtendedDynamicState3", "EXTShaderObject"}, {"vkCmdSetLineRasterizationModeEXT",
       "vkCmdSetLineStippleEnableEXT", "vkCmdSetLogicOpEnableEXT", "vkCmdSetPolygonModeEXT"})
  @@ Of({"EXTLineRasterization"}, {"vkCmdSetLineStippleEXT"})
  @@ Of({"1.0"}, {"vkCmdSetLineWidth"})
  @@ Of({"EXTExtendedDynamicState2", "EXTShaderObject"}, {"vkCmdSetLogicOpEXT",
       "vkCmdSetPatchControlPointsEXT"})
  @@ Of({"INTELPerformanceQuery"}, {"vkCmdSetPerformanceMarkerINTEL",
       "vkCmdSetPerformanceOverrideINTEL", "vkCmdSetPerformanceStreamMarkerINTEL"})
  @@ Of({"1.3"}, {"vkCmdSetPrimitiveRestartEnable"})

CmdSetPrimitiveRestartToCmdSetSampleLocations ==
  Of({"1.3"}, {"vkCmdSetPrimitiveTopology", "vkCmdSetRasterizerDiscardEnable"})
  @@ Of({"EXTExtendedDynamicState3", "EXTShaderObject"}, {"vkCmdSetProvokingVertexModeEXT",
       "vkCmdSetRasterizationSamplesEXT", "vkCmdSetRasterizationStreamEXT",
       "vkCmdSetRepresentativeFragmentTestEnableNV"})
  @@ Of({"KHRRayTracingPipeline"}, {"vkCmdSetRayTracingPipelineStackSizeKHR"})
  @@ Of({"EXTSampleLocations"}, {"vkCmdSetSampleLocationsEXT"})
  @@ AliasOf({"EXTExtendedDynamicState2", "EXTShaderObject"},
       "vkCmdSetPrimitiveRestartEnableEXT" :> "vkCmdSetPrimitiveRestartEnable"
       @@ "vkCmdSetRasterizerDiscardEnableEXT" :> "vkCmdSetRasterizerDiscardEnable")
  @@ AliasOf({"EXTExtendedDynamicState", "EXTShaderObject"},
       "vkCmdSetPrimitiveTopologyEXT" :> "vkCmdSetPrimitiveTopology")

CmdSetSampleLocationsToCmdSetStencilTest ==
  Of({"EXTExtendedDynamicState3", "EXTShaderObject"}, {"vkCmdSetSampleLocationsEnableEXT",
       "vkCmdSetSampleMaskEXT", "vkCmdSetShadingRateImageEnableNV"})
  @@ Of({"1.0"}, {"vkCmdSetScissor", "vkCmdSetStencilCompareMask", "vkCmdSetStencilReference"})
  @@ Of({"1.3"}, {"vkCmdSetScissorWithCount", "vkCmdSetStencilOp", "vkCmdSetStencilTestEnable"})
  @@ AliasOf({"EXTExtendedDynamicState", "EXTShaderObject"},
       "vkCmdSetScissorWithCountEXT" :> "vkCmdSetScissorWithCount"
       @@ "vkCmdSetStencilOpEXT" :> "vkCmdSetStencilOp"
       @@ "vkCmdSetStencilTestEnableEXT" :> "vkCmdSetStencilTestEnable")

CmdSetStencilWriteToCmdSubpassShading ==
  Of({"1.0"}, {"vkCmdSetStencilWriteMask", "vkCmdSetViewport"})
  @@ Of({"EXTExtendedDynamicState3", "EXTShaderObject"}, {"vkCmdSetTessellationDomainOriginEXT",
       "vkCmdSetViewportSwizzleNV", "vkCmdSetViewportWScalingEnableNV"})
  @@ Of({"EXTShaderObject", "EXTVertexInputDynamicState"}, {"vkCmdSetVertexInputEXT"})
  @@ Of({"NVShadingRateImage"}, {"vkCmdSetViewportShadingRatePaletteNV"})
  @@ Of({"NVClipSpaceWScaling"}, {"vkCmdSetViewportWScalingNV"})
  @@ Of({"1.3"}, {"vkCmdSetViewportWithCount"})
  @@ Of({"HUAWEISubpassShading"}, {"vkCmdSubpassShadingHUAWEI"})
  @@ AliasOf({"EXTExtendedDynamicState", "EXTShaderObject"},
       "vkCmdSetViewportWithCountEXT" :> "vkCmdSetViewportWithCount")

CmdTraceRaysToCmdWaitEvents2 ==
  Of({"KHRRayTracingMaintenance1"}, {"vkCmdTraceRaysIndirect2KHR"})
  @@ Of({"KHRRayTracingPipeline"}, {"vkCmdTraceRaysIndirectKHR", "vkCmdTraceRaysKHR"})
  @@ Of({"NVRayTracing"}, {"vkCmdTraceRaysNV"})
  @@ Of({"1.0"}, {"vkCmdUpdateBuffer", "vkCmdWaitEvents"})
  @@ Of({"1.3"}, {"vkCmdWaitEvents2"})
  @@ AliasOf({"KHRSynchronization2"}, "vkCmdWaitEvents2KHR" :> "vkCmdWaitEvents2")

CmdWriteAccelerationToCompileDeferredN ==
  Of({"KHRAccelerationStructure"}, {"vkCmdWriteAccelerationStructuresPropertiesKHR"})
  @@ Of({"NVRayTracing"}, {"vkCmdWriteAccelerationStructuresPropertiesNV",
       "vkCompileDeferredNV"})
  @@ Of({"KHRSynchronization2"}, {"vkCmdWriteBufferMarker2AMD"})
  @@ Of({"AMDBufferMarker"}, {"vkCmdWriteBufferMarkerAMD"})
  @@ Of({"EXTOpacityMicromap"}, {"vkCmdWriteMicromapsPropertiesEXT"})
  @@ Of({"1.0"}, {"vkCmdWriteTimestamp"})
  @@ Of({"1.3"}, {"vkCmdWriteTimestamp2"})
  @@ AliasOf({"KHRSynchronization2"}, "vkCmdWriteTimestamp2KHR" :> "vkCmdWriteTimestamp2")

CopyAccelerationStructureToCopyMicromapTo ==
  Of({"KHRAccelerationStructure"}, {"vkCopyAccelerationStructureKHR",
       "vkCopyAccelerationStructureToMemoryKHR", "vkCopyMemoryToAccelerationStructureKHR"})
  @@ Of({"EXTOpacityMicromap"}, {"vkCopyMemoryToMicromapEXT", "vkCopyMicromapEXT",
       "vkCopyMicromapToMemoryEXT"})

CreateAccelerationStructureToCreateDescriptorUpdate ==
  Of({"KHRAccelerationStructure"}, {"vkCreateAccelerationStructureKHR"})
  @@ Of({"NVRayTracing"}, {"vkCreateAccelerationStructureNV"})
  @@ Of({"1.0"}, {"vkCreateBuffer", "vkCreateBufferView", "vkCreateCommandPool",
       "vkCreateComputePipelines", "vkCreateDescriptorPool", "vkCreateDescriptorSetLayout"})
  @@ Of({"FUCHSIABufferCollection"}, {"vkCreateBufferCollectionFUCHSIA"})
  @@ Of({"NVXBinaryImport"}, {"vkCreateCuFunctionNVX", "vkCreateCuModuleNVX"})
  @@ Of({"KHRDeferredHostOperations"}, {"vkCreateDeferredOperationKHR"})
  @@ Of({"1.1"}, {"vkCreateDescriptorUpdateTemplate"})

CreateDescriptorUpdateToCreatePrivateData ==
  Of({"1.0"}, {"vkCreateEvent", "vkCreateFence", "vkCreateFramebuffer",
       "vkCreateGraphicsPipelines", "vkCreateImage", "vkCreateImageView",
       "vkCreatePipelineCache", "vkCreatePipelineLayout"})
  @@ Of({"NVDeviceGeneratedCommands"}, {"vkCreateIndirectCommandsLayoutNV"})
  @@ Of({"EXTOpacityMicromap"}, {"vkCreateMicromapEXT"})
  @@ Of({"NVOpticalFlow"}, {"vkCreateOpticalFlowSessionNV"})
  @@ Of({"1.3"}, {"vkCreatePrivateDataSlot"})
  @@ AliasOf({"KHRDescriptorUpdateTemplate"},
       "vkCreateDescriptorUpdateTemplateKHR" :> "vkCreateDescriptorUpdateTemplate")
  @@ AliasOf({"EXTPrivateData"}, "vkCreatePrivateDataSlotEXT" :> "vkCreatePrivateDataSlot")

CreateQueryPoolToCreateValidationCache ==
  Of({"1.0"}, {"vkCreateQueryPool", "vkCreateRenderPass", "vkCreateSampler",
       "vkCreateSemaphore", "vkCreateShaderModule"})
  @@ Of({"KHRRayTracingPipeline"}, {"vkCreateRayTracingPipelinesKHR"})
  @@ Of({"NVRayTracing"}, {"vkCreateRayTracingPipelinesNV"})
  @@ Of({"1.2"}, {"vkCreateRenderPass2"})
  @@ Of({"1.1"}, {"vkCreateSamplerYcbcrConversion"})
  @@ Of({"KHRDisplaySwapchain"}, {"vkCreateSharedSwapchainsKHR"})
  @@ Of({"KHRSwapchain"}, {"vkCreateSwapchainKHR"})
  @@ Of({"EXTValidationCache"}, {"vkCreateValidationCacheEXT"})
  @@ AliasOf({"KHRCreateRenderpass2"}, "vkCreateRenderPass2KHR" :> "vkCreateRenderPass2")
  @@ AliasOf({"KHRSamplerYcbcrConversion"},
       "vkCreateSamplerYcbcrConversionKHR" :> "vkCreateSamplerYcbcrConversion")

CreateVideoSessionToDeferredOperationJoin ==
  Of({"KHRVideoQueue"}, {"vkCreateVideoSessionKHR", "vkCreateVideoSessionParametersKHR"})
  @@ Of({"EXTDebugMarker"}, {"vkDebugMarkerSetObjectNameEXT", "vkDebugMarkerSetObjectTagEXT"})
  @@ Of({"KHRDeferredHostOperations"}, {"vkDeferredOperationJoinKHR"})

DestroyAccelerationStructureToDestroyDescriptorUpdate ==
  Of({"KHRAccelerationStructure"}, {"vkDestroyAccelerationStructureKHR"})
  @@ Of({"NVRayTracing"}, {"vkDestroyAccelerationStructureNV"})
  @@ Of({"1.0"}, {"vkDestroyBuffer", "vkDestroyBufferView", "vkDestroyCommandPool",
       "vkDestroyDescriptorPool", "vkDestroyDescriptorSetLayout"})
  @@ Of({"FUCHSIABufferCollection"}, {"vkDestroyBufferCollectionFUCHSIA"})
  @@ Of({"NVXBinaryImport"}, {"vkDestroyCuFunctionNVX", "vkDestroyCuModuleNVX"})
  @@ Of({"KHRDeferredHostOperations"}, {"vkDestroyDeferredOperationKHR"})
  @@ Of({"1.1"}, {"vkDestroyDescriptorUpdateTemplate"})
  @@ AliasOf({"KHRDescriptorUpdateTemplate"},
       "vkDestroyDescriptorUpdateTemplateKHR" :> "vkDestroyDescriptorUpdateTemplate")

DestroyDeviceToDestroyPrivateData ==
  Of({"1.0"}, {"vkDestroyDevice", "vkDestroyEvent", "vkDestroyFence", "vkDestroyFramebuffer",
       "vkDestroyImage", "vkDestroyImageView", "vkDestroyPipeline", "vkDestroyPipelineCache",
       "vkDestroyPipelineLayout"})
  @@ Of({"NVDeviceGeneratedCommands"}, {"vkDestroyIndirectCommandsLayoutNV"})
  @@ Of({"EXTOpacityMicromap"}, {"vkDestroyMicromapEXT"})
  @@ Of({"NVOpticalFlow"}, {"vkDestroyOpticalFlowSessionNV"})
  @@ Of({"1.3"}, {"vkDestroyPrivateDataSlot"})
  @@ AliasOf({"EXTPrivateData"}, "vkDestroyPrivateDataSlotEXT" :> "vkDestroyPrivateDataSlot")

DestroyQueryPoolToEndCommandBuffer ==
  Of({"1.0"}, {"vkDestroyQueryPool", "vkDestroyRenderPass", "vkDestroySampler",
       "vkDestroySemaphore", "vkDestroyShaderModule", "vkDeviceWaitIdle", "vkEndCommandBuffer"})
  @@ Of({"1.1"}, {"vkDestroySamplerYcbcrConversion"})
  @@ Of({"KHRSwapchain"}, {"vkDestroySwapchainKHR"})
  @@ Of({"EXTValidationCache"}, {"vkDestroyValidationCacheEXT"})
  @@ Of({"KHRVideoQueue"}, {"vkDestroyVideoSessionKHR", "vkDestroyVideoSessionParametersKHR"})
  @@ Of({"EXTDisplayControl"}, {"vkDisplayPowerControlEXT"})
  @@ AliasOf({"KHRSamplerYcbcrConversion"},
       "vkDestroySamplerYcbcrConversionKHR" :> "vkDestroySamplerYcbcrConversion")

ExportMetalObjectsToGetAndroidHardware ==
  Of({"EXTMetalObjects"}, {"vkExportMetalObjectsEXT"})
  @@ Of({"1.0"}, {"vkFlushMappedMemoryRanges", "vkFreeCommandBuffers", "vkFreeDescriptorSets",
       "vkFreeMemory"})
  @@ Of({"KHRAccelerationStructure"}, {"vkGetAccelerationStructureBuildSizesKHR",
       "vkGetAccelerationStructureDeviceAddressKHR"})
  @@ Of({"NVRayTracing"}, {"vkGetAccelerationStructureHandleNV",
       "vkGetAccelerationStructureMemoryRequirementsNV"})
  @@ Of({"EXTDescriptorBuffer"}, {"vkGetAccelerationStructureOpaqueCaptureDescriptorDataEXT"})
  @@ Of({"ANDROIDExternalMemoryAndroidHardwareBuffer"},
       {"vkGetAndroidHardwareBufferPropertiesANDROID"})

GetBufferCollectionToGetDeferredOperation ==
  Of({"FUCHSIABufferCollection"}, {"vkGetBufferCollectionPropertiesFUCHSIA"})
  @@ Of({"1.2"}, {"vkGetBufferDeviceAddress", "vkGetBufferOpaqueCaptureAddress"})
  @@ Of({"1.0"}, {"vkGetBufferMemoryRequirements"})
  @@ Of({"1.1"}, {"vkGetBufferMemoryRequirements2"})
  @@ Of({"EXTDescriptorBuffer"}, {"vkGetBufferOpaqueCaptureDescriptorDataEXT"})
  @@ Of({"EXTCalibratedTimestamps"}, {"vkGetCalibratedTimestampsEXT"})
  @@ Of({"KHRDeferredHostOperations"}, {"vkGetDeferredOperationMaxConcurrencyKHR",
       "vkGetDeferredOperationResultKHR"})
  @@ AliasOf({"EXTBufferDeviceAddress"},
       "vkGetBufferDeviceAddressEXT" :> "vkGetBufferDeviceAddress")
  @@ AliasOf({"KHRBufferDeviceAddress"},
       "vkGetBufferDeviceAddressKHR" :> "vkGetBufferDeviceAddress"
       @@ "vkGetBufferOpaqueCaptureAddressKHR" :> "vkGetBufferOpaqueCaptureAddress")
  @@ AliasOf({"KHRGetMemoryRequirements2"},
       "vkGetBufferMemoryRequirements2KHR" :> "vkGetBufferMemoryRequirements2")

GetDescriptorEToGetDescriptorSet ==
  Of({"EXTDescriptorBuffer"}, {"vkGetDescriptorEXT", "vkGetDescriptorSetLayoutBindingOffsetEXT",
       "vkGetDescriptorSetLayoutSizeEXT"})
  @@ Of({"VALVEDescriptorSetHostMapping"}, {"vkGetDescriptorSetHostMappingVALVE",
       "vkGetDescriptorSetLayoutHostMappingInfoVALVE"})
  @@ Of({"1.1"}, {"vkGetDescriptorSetLayoutSupport"})
  @@ AliasOf({"KHRMaintenance3"},
       "vkGetDescriptorSetLayoutSupportKHR" :> "vkGetDescriptorSetLayoutSupport")

GetDeviceAccelerationToGetDeviceImage ==
  Of({"KHRAccelerationStructure"}, {"vkGetDeviceAccelerationStructureCompatibilityKHR"})
  @@ Of({"1.3"}, {"vkGetDeviceBufferMemoryRequirements", "vkGetDeviceImageMemoryRequirements",
       "vkGetDeviceImageSparseMemoryRequirements"})
  @@ Of({"1.1"}, {"vkGetDeviceGroupPeerMemoryFeatures"})
  @@ Of({"KHRDeviceGroup", "KHRSwapchain"}, {"vkGetDeviceGroupPresentCapabilitiesKHR",
       "vkGetDeviceGroupSurfacePresentModesKHR"})
  @@ Of({"EXTFullScreenExclusive"}, {"vkGetDeviceGroupSurfacePresentModes2EXT"})
  @@ AliasOf({"KHRMaintenance4"},
       "vkGetDeviceBufferMemoryRequirementsKHR" :> "vkGetDeviceBufferMemoryRequirements"
       @@ "vkGetDeviceImageMemoryRequirementsKHR" :> "vkGetDeviceImageMemoryRequirements"
       @@ "vkGetDeviceImageSparseMemoryRequirementsKHR" :> "vkGetDeviceImageSparseMemoryRequirements")
  @@ AliasOf({"KHRDeviceGroup"},
       "vkGetDeviceGroupPeerMemoryFeaturesKHR" :> "vkGetDeviceGroupPeerMemoryFeatures")

GetDeviceMemoryToGetFenceWin32 ==
  Of({"1.0"}, {"vkGetDeviceMemoryCommitment", "vkGetDeviceProcAddr", "vkGetDeviceQueue",
       "vkGetEventStatus", "vkGetFenceStatus"})
  @@ Of({"1.2"}, {"vkGetDeviceMemoryOpaqueCaptureAddress"})
  @@ Of({"EXTOpacityMicromap"}, {"vkGetDeviceMicromapCompatibilityEXT"})
  @@ Of({"1.1"}, {"vkGetDeviceQueue2"})
  @@ Of({"HUAWEISubpassShading"}, {"vkGetDeviceSubpassShadingMaxWorkgroupSizeHUAWEI"})
  @@ Of({"QCOMTileProperties"}, {"vkGetDynamicRenderingTilePropertiesQCOM"})
  @@ Of({"KHRExternalFenceFd"}, {"vkGetFenceFdKHR"})
  @@ Of({"KHRExternalFenceWin32"}, {"vkGetFenceWin32HandleKHR"})
  @@ AliasOf({"KHRBufferDeviceAddress"},
       "vkGetDeviceMemoryOpaqueCaptureAddressKHR" :> "vkGetDeviceMemoryOpaqueCaptureAddress")

GetFramebufferTileToGetGeneratedCommands ==
  Of({"QCOMTileProperties"}, {"vkGetFramebufferTilePropertiesQCOM"})
  @@ Of({"NVDeviceGeneratedCommands"}, {"vkGetGeneratedCommandsMemoryRequirementsNV"})

GetImageDrmToGetImageView ==
  Of({"EXTImageDrmFormatModifier"}, {"vkGetImageDrmFormatModifierPropertiesEXT"})
  @@ Of({"1.0"}, {"vkGetImageMemoryRequirements", "vkGetImageSparseMemoryRequirements",
       "vkGetImageSubresourceLayout"})
  @@ Of({"1.1"}, {"vkGetImageMemoryRequirements2", "vkGetImageSparseMemoryRequirements2"})
  @@ Of({"EXTDescriptorBuffer"}, {"vkGetImageOpaqueCaptureDescriptorDataEXT",
       "vkGetImageViewOpaqueCaptureDescriptorDataEXT"})
  @@ Of({"EXTImageCompressionControl"}, {"vkGetImageSubresourceLayout2EXT"})
  @@ Of({"NVXImageViewHandle"}, {"vkGetImageViewAddressNVX", "vkGetImageViewHandleNVX"})
  @@ AliasOf({"KHRGetMemoryRequirements2"},
       "vkGetImageMemoryRequirements2KHR" :> "vkGetImageMemoryRequirements2"
       @@ "vkGetImageSparseMemoryRequirements2KHR" :> "vkGetImageSparseMemoryRequirements2")

GetMemoryAndroidToGetPerformanceParameter ==
  Of({"ANDROIDExternalMemoryAndroidHardwareBuffer"},
       {"vkGetMemoryAndroidHardwareBufferANDROID"})
  @@ Of({"KHRExternalMemoryFd"}, {"vkGetMemoryFdKHR", "vkGetMemoryFdPropertiesKHR"})
  @@ Of({"EXTExternalMemoryHost"}, {"vkGetMemoryHostPointerPropertiesEXT"})
  @@ Of({"NVExternalMemoryRdma"}, {"vkGetMemoryRemoteAddressNV"})
  @@ Of({"KHRExternalMemoryWin32"}, {"vkGetMemoryWin32HandleKHR",
       "vkGetMemoryWin32HandlePropertiesKHR"})
  @@ Of({"NVExternalMemoryWin32"}, {"vkGetMemoryWin32HandleNV"})
  @@ Of({"FUCHSIAExternalMemory"}, {"vkGetMemoryZirconHandleFUCHSIA",
       "vkGetMemoryZirconHandlePropertiesFUCHSIA"})
  @@ Of({"EXTOpacityMicromap"}, {"vkGetMicromapBuildSizesEXT"})
  @@ Of({"GOOGLEDisplayTiming"}, {"vkGetPastPresentationTimingGOOGLE"})
  @@ Of({"INTELPerformanceQuery"}, {"vkGetPerformanceParameterINTEL"})

GetPipelineCacheToGetQueueCheckpoint ==
  Of({"1.0"}, {"vkGetPipelineCacheData", "vkGetQueryPoolResults"})
  @@ Of({"KHRPipelineExecutableProperties"},
       {"vkGetPipelineExecutableInternalRepresentationsKHR",
       "vkGetPipelineExecutablePropertiesKHR", "vkGetPipelineExecutableStatisticsKHR"})
  @@ Of({"EXTPipelineProperties"}, {"vkGetPipelinePropertiesEXT"})
  @@ Of({"1.3"}, {"vkGetPrivateData"})
  @@ Of({"KHRSynchronization2"}, {"vkGetQueueCheckpointData2NV"})
  @@ Of({"NVDeviceDiagnosticCheckpoints"}, {"vkGetQueueCheckpointDataNV"})
  @@ AliasOf({"EXTPrivateData"}, "vkGetPrivateDataEXT" :> "vkGetPrivateData")

GetRayTracingToGetSemaphoreZircon ==
  Of({"KHRRayTracingPipeline"}, {"vkGetRayTracingCaptureReplayShaderGroupHandlesKHR",
       "vkGetRayTracingShaderGroupHandlesKHR", "vkGetRayTracingShaderGroupStackSizeKHR"})
  @@ Of({"GOOGLEDisplayTiming"}, {"vkGetRefreshCycleDurationGOOGLE"})
  @@ Of({"1.0"}, {"vkGetRenderAreaGranularity"})
  @@ Of({"EXTDescriptorBuffer"}, {"vkGetSamplerOpaqueCaptureDescriptorDataEXT"})
  @@ Of({"1.2"}, {"vkGetSemaphoreCounterValue"})
  @@ Of({"KHRExternalSemaphoreFd"}, {"vkGetSemaphoreFdKHR"})
  @@ Of({"KHRExternalSemaphoreWin32"}, {"vkGetSemaphoreWin32HandleKHR"})
  @@ Of({"FUCHSIAExternalSemaphore"}, {"vkGetSemaphoreZirconHandleFUCHSIA"})
  @@ AliasOf({"NVRayTracing"},
       "vkGetRayTracingShaderGroupHandlesNV" :> "vkGetRayTracingShaderGroupHandlesKHR")
  @@ AliasOf({"KHRTimelineSemaphore"},
       "vkGetSemaphoreCounterValueKHR" :> "vkGetSemaphoreCounterValue")

GetShaderInfoToGetVideoSession ==
  Of({"AMDShaderInfo"}, {"vkGetShaderInfoAMD"})
  @@ Of({"EXTShaderModuleIdentifier"}, {"vkGetShaderModuleCreateInfoIdentifierEXT",
       "vkGetShaderModuleIdentifierEXT"})
  @@ Of({"EXTDisplayControl"}, {"vkGetSwapchainCounterEXT"})
  @@ Of({"ANDROIDNativeBuffer"}, {"vkGetSwapchainGrallocUsage2ANDROID",
       "vkGetSwapchainGrallocUsageANDROID"})
  @@ Of({"KHRSwapchain"}, {"vkGetSwapchainImagesKHR"})
  @@ Of({"KHRSharedPresentableImage"}, {"vkGetSwapchainStatusKHR"})
  @@ Of({"EXTValidationCache"}, {"vkGetValidationCacheDataEXT"})
  @@ Of({"KHRVideoQueue"}, {"vkGetVideoSessionMemoryRequirementsKHR"})

ImportFenceFdToMergeValidationCaches ==
  Of({"KHRExternalFenceFd"}, {"vkImportFenceFdKHR"})
  @@ Of({"KHRExternalFenceWin32"}, {"vkImportFenceWin32HandleKHR"})
  @@ Of({"KHRExternalSemaphoreFd"}, {"vkImportSemaphoreFdKHR"})
  @@ Of({"KHRExternalSemaphoreWin32"}, {"vkImportSemaphoreWin32HandleKHR"})
  @@ Of({"FUCHSIAExternalSemaphore"}, {"vkImportSemaphoreZirconHandleFUCHSIA"})
  @@ Of({"INTELPerformanceQuery"}, {"vkInitializePerformanceApiINTEL"})
  @@ Of({"1.0"}, {"vkInvalidateMappedMemoryRanges", "vkMapMemory", "vkMergePipelineCaches"})
  @@ Of({"EXTValidationCache"}, {"vkMergeValidationCachesEXT"})

QueueBeginDebugToRegisterDisplayEvent ==
  Of({"EXTDebugUtils"}, {"vkQueueBeginDebugUtilsLabelEXT", "vkQueueEndDebugUtilsLabelEXT",
       "vkQueueInsertDebugUtilsLabelEXT"})
  @@ Of({"1.0"}, {"vkQueueBindSparse", "vkQueueSubmit", "vkQueueWaitIdle"})
  @@ Of({"KHRSwapchain"}, {"vkQueuePresentKHR"})
  @@ Of({"INTELPerformanceQuery"}, {"vkQueueSetPerformanceConfigurationINTEL"})
  @@ Of({"ANDROIDNativeBuffer"}, {"vkQueueSignalReleaseImageANDROID"})
  @@ Of({"1.3"}, {"vkQueueSubmit2"})
  @@ Of({"EXTDisplayControl"}, {"vkRegisterDeviceEventEXT", "vkRegisterDisplayEventEXT"})
  @@ AliasOf({"KHRSynchronization2"}, "vkQueueSubmit2KHR" :> "vkQueueSubmit2")

ReleaseFullScreenToResetQueryPool ==
  Of({"EXTFullScreenExclusive"}, {"vkReleaseFullScreenExclusiveModeEXT"})
  @@ Of({"INTELPerformanceQuery"}, {"vkReleasePerformanceConfigurationINTEL"})
  @@ Of({"KHRPerformanceQuery"}, {"vkReleaseProfilingLockKHR"})
  @@ Of({"EXTSwapchainMaintenance1"}, {"vkReleaseSwapchainImagesEXT"})
  @@ Of({"1.0"}, {"vkResetCommandBuffer", "vkResetCommandPool", "vkResetDescriptorPool",
       "vkResetEvent", "vkResetFences"})
  @@ Of({"1.2"}, {"vkResetQueryPool"})
  @@ AliasOf({"EXTHostQueryReset"}, "vkResetQueryPoolEXT" :> "vkResetQueryPool")

SetBufferCollectionToTrimCommandPool ==
  Of({"FUCHSIABufferCollection"}, {"vkSetBufferCollectionBufferConstraintsFUCHSIA",
       "vkSetBufferCollectionImageConstraintsFUCHSIA"})
  @@ Of({"EXTDebugUtils"}, {"vkSetDebugUtilsObjectNameEXT", "vkSetDebugUtilsObjectTagEXT"})
  @@ Of({"EXTPageableDeviceLocalMemory"}, {"vkSetDeviceMemoryPriorityEXT"})
  @@ Of({"1.0"}, {"vkSetEvent"})
  @@ Of({"EXTHdrMetadata"}, {"vkSetHdrMetadataEXT"})
  @@ Of({"AMDDisplayNativeHdr"}, {"vkSetLocalDimmingAMD"})
  @@ Of({"1.3"}, {"vkSetPrivateData"})
  @@ Of({"1.2"}, {"vkSignalSemaphore"})
  @@ Of({"1.1"}, {"vkTrimCommandPool"})
  @@ AliasOf({"EXTPrivateData"}, "vkSetPrivateDataEXT" :> "vkSetPrivateData")
  @@ AliasOf({"KHRTimelineSemaphore"}, "vkSignalSemaphoreKHR" :> "vkSignalSemaphore")
  @@ AliasOf({"KHRMaintenance1"}, "vkTrimCommandPoolKHR" :> "vkTrimCommandPool")

UninitializePerformanceApiToWriteMicromapsProperties ==
  Of({"INTELPerformanceQuery"}, {"vkUninitializePerformanceApiINTEL"})
  @@ Of({"1.0"}, {"vkUnmapMemory", "vkUpdateDescriptorSets", "vkWaitForFences"})
  @@ Of({"1.1"}, {"vkUpdateDescriptorSetWithTemplate"})
  @@ Of({"KHRVideoQueue"}, {"vkUpdateVideoSessionParametersKHR"})
  @@ Of({"KHRPresentWait"}, {"vkWaitForPresentKHR"})
  @@ Of({"1.2"}, {"vkWaitSemaphores"})
  @@ Of({"KHRAccelerationStructure"}, {"vkWriteAccelerationStructuresPropertiesKHR"})
  @@ Of({"EXTOpacityMicromap"}, {"vkWriteMicromapsPropertiesEXT"})
  @@ AliasOf({"KHRDescriptorUpdateTemplate"},
       "vkUpdateDescriptorSetWithTemplateKHR" :> "vkUpdateDescriptorSetWithTemplate")
  @@ AliasOf({"KHRTimelineSemaphore"}, "vkWaitSemaphoresKHR" :> "vkWaitSemaphores")

\* The whole table.
DeviceCommandTable ==
  AcquireFullScreenToBeginCommandBuffer @@ BindAccelerationStructureToBuildMicromapsE
     @@ CmdBeginConditionalToCmdBeginVideo @@ CmdBindDescriptorToCmdBindVertex
     @@ CmdBlitImageToCmdControlVideo @@ CmdCopyAccelerationToCmdCopyImage
     @@ CmdCopyImageToCmdDecodeVideo @@ CmdDecompressMemoryToCmdDispatchIndirect
     @@ CmdDrawToCmdDrawMesh @@ CmdDrawMeshToCmdEncodeVideo @@ CmdEndConditionalToCmdFillBuffer
     @@ CmdInsertDebugToCmdPushDescriptor @@ CmdResetEventToCmdResolveImage2
     @@ CmdSetAlphaToToCmdSetConservativeRasterization
     @@ CmdSetCoverageModulationToCmdSetDepthBias @@ CmdSetDepthBoundsToCmdSetDepthWrite
     @@ CmdSetDescriptorBufferToCmdSetFrontFace
     @@ CmdSetLineRasterizationToCmdSetPrimitiveRestart
     @@ CmdSetPrimitiveRestartToCmdSetSampleLocations
     @@ CmdSetSampleLocationsToCmdSetStencilTest @@ CmdSetStencilWriteToCmdSubpassShading
     @@ CmdTraceRaysToCmdWaitEvents2 @@ CmdWriteAccelerationToCompileDeferredN
     @@ CopyAccelerationStructureToCopyMicromapTo
     @@ CreateAccelerationStructureToCreateDescriptorUpdate
     @@ CreateDescriptorUpdateToCreatePrivateData @@ CreateQueryPoolToCreateValidationCache
     @@ CreateVideoSessionToDeferredOperationJoin
     @@ DestroyAccelerationStructureToDestroyDescriptorUpdate
     @@ DestroyDeviceToDestroyPrivateData @@ DestroyQueryPoolToEndCommandBuffer
     @@ ExportMetalObjectsToGetAndroidHardware @@ GetBufferCollectionToGetDeferredOperation
     @@ GetDescriptorEToGetDescriptorSet @@ GetDeviceAccelerationToGetDeviceImage
     @@ GetDeviceMemoryToGetFenceWin32 @@ GetFramebufferTileToGetGeneratedCommands
     @@ GetImageDrmToGetImageView @@ GetMemoryAndroidToGetPerformanceParameter
     @@ GetPipelineCacheToGetQueueCheckpoint @@ GetRayTracingToGetSemaphoreZircon
     @@ GetShaderInfoToGetVideoSession @@ ImportFenceFdToMergeValidationCaches
     @@ QueueBeginDebugToRegisterDisplayEvent @@ ReleaseFullScreenToResetQueryPool
     @@ SetBufferCollectionToTrimCommandPool
     @@ UninitializePerformanceApiToWriteMicromapsProperties

-----------------------------------------------------------------------------
(* create_instance_commands.                                               *)

InstanceAcquireToDebug ==
  Of({"EXTAcquireDrmDisplay"}, {"vkAcquireDrmDisplayEXT"})
  @@ Of({"NVAcquireWinrtDisplay"}, {"vkAcquireWinrtDisplayNV"})
  @@ Of({"EXTAcquireXlibDisplay"}, {"vkAcquireXlibDisplayEXT"})
  @@ Of({"KHRAndroidSurface"}, {"vkCreateAndroidSurfaceKHR"})
  @@ Of({"EXTDebugReport"}, {"vkCreateDebugReportCallbackEXT", "vkDebugReportMessageEXT"})
  @@ Of({"EXTDebugUtils"}, {"vkCreateDebugUtilsMessengerEXT"})
  @@ Of({"1.0"}, {"vkCreateDevice"})
  @@ Of({"EXTDirectfbSurface"}, {"vkCreateDirectFBSurfaceEXT"})
  @@ Of({"KHRDisplay"}, {"vkCreateDisplayModeKHR", "vkCreateDisplayPlaneSurfaceKHR"})
  @@ Of({"EXTHeadlessSurface"}, {"vkCreateHeadlessSurfaceEXT"})
  @@ Of({"MVKIosSurface"}, {"vkCreateIOSSurfaceMVK"})
  @@ Of({"FUCHSIAImagepipeSurface"}, {"vkCreateImagePipeSurfaceFUCHSIA"})
  @@ Of({"MVKMacosSurface"}, {"vkCreateMacOSSurfaceMVK"})
  @@ Of({"EXTMetalSurface"}, {"vkCreateMetalSurfaceEXT"})
  @@ Of({"QNXScreenSurface"}, {"vkCreateScreenSurfaceQNX"})
  @@ Of({"GGPStreamDescriptorSurface"}, {"vkCreateStreamDescriptorSurfaceGGP"})
  @@ Of({"NNViSurface"}, {"vkCreateViSurfaceNN"})
  @@ Of({"KHRWaylandSurface"}, {"vkCreateWaylandSurfaceKHR"})
  @@ Of({"KHRWin32Surface"}, {"vkCreateWin32SurfaceKHR"})
  @@ Of({"KHRXcbSurface"}, {"vkCreateXcbSurfaceKHR"})
  @@ Of({"KHRXlibSurface"}, {"vkCreateXlibSurfaceKHR"})

InstanceDestroyToGetInstance ==
  Of({"EXTDebugReport"}, {"vkDestroyDebugReportCallbackEXT"})
  @@ Of({"EXTDebugUtils"}, {"vkDestroyDebugUtilsMessengerEXT"})
  @@ Of({"1.0"}, {"vkDestroyInstance", "vkEnumerateDeviceExtensionProperties",
       "vkEnumerateDeviceLayerProperties", "vkEnumeratePhysicalDevices",
       "vkGetInstanceProcAddr"})
  @@ Of({"KHRSurface"}, {"vkDestroySurfaceKHR"})
  @@ Of({"1.1"}, {"vkEnumeratePhysicalDeviceGroups"})
  @@ Of({"KHRPerformanceQuery"},
       {"vkEnumeratePhysicalDeviceQueueFamilyPerformanceQueryCountersKHR"})
  @@ Of({"KHRGetDisplayProperties2"}, {"vkGetDisplayModeProperties2KHR",
       "vkGetDisplayPlaneCapabilities2KHR"})
  @@ Of({"KHRDisplay"}, {"vkGetDisplayModePropertiesKHR", "vkGetDisplayPlaneCapabilitiesKHR",
       "vkGetDisplayPlaneSupportedDisplaysKHR"})
  @@ Of({"EXTAcquireDrmDisplay"}, {"vkGetDrmDisplayEXT"})
  @@ AliasOf({"KHRDeviceGroupCreation"},
       "vkEnumeratePhysicalDeviceGroupsKHR" :> "vkEnumeratePhysicalDeviceGroups")

InstanceCalibrateableToMemory ==
  Of({"EXTCalibratedTimestamps"}, {"vkGetPhysicalDeviceCalibrateableTimeDomainsEXT"})
  @@ Of({"NVCooperativeMatrix"}, {"vkGetPhysicalDeviceCooperativeMatrixPropertiesNV"})
  @@ Of({"EXTDirectfbSurface"}, {"vkGetPhysicalDeviceDirectFBPresentationSupportEXT"})
  @@ Of({"KHRGetDisplayProperties2"}, {"vkGetPhysicalDeviceDisplayPlaneProperties2KHR",
       "vkGetPhysicalDeviceDisplayProperties2KHR"})
  @@ Of({"KHRDisplay"}, {"vkGetPhysicalDeviceDisplayPlanePropertiesKHR",
       "vkGetPhysicalDeviceDisplayPropertiesKHR"})
  @@ Of({"1.1"}, {"vkGetPhysicalDeviceExternalBufferProperties",
       "vkGetPhysicalDeviceExternalFenceProperties",
       "vkGetPhysicalDeviceExternalSemaphoreProperties", "vkGetPhysicalDeviceFeatures2",
       "vkGetPhysicalDeviceFormatProperties2", "vkGetPhysicalDeviceImageFormatProperties2"})
  @@ Of({"NVExternalMemoryCapabilities"},
       {"vkGetPhysicalDeviceExternalImageFormatPropertiesNV"})
  @@ Of({"1.0"}, {"vkGetPhysicalDeviceFeatures", "vkGetPhysicalDeviceFormatProperties",
       "vkGetPhysicalDeviceImageFormatProperties", "vkGetPhysicalDeviceMemoryProperties"})
  @@ Of({"KHRFragmentShadingRate"}, {"vkGetPhysicalDeviceFragmentShadingRatesKHR"})
  @@ AliasOf({"KHRExternalMemoryCapabilities"},
       "vkGetPhysicalDeviceExternalBufferPropertiesKHR" :> "vkGetPhysicalDeviceExternalBufferProperties")
  @@ AliasOf({"KHRExternalFenceCapabilities"},
       "vkGetPhysicalDeviceExternalFencePropertiesKHR" :> "vkGetPhysicalDeviceExternalFenceProperties")
  @@ AliasOf({"KHRExternalSemaphoreCapabilities"},
       "vkGetPhysicalDeviceExternalSemaphorePropertiesKHR" :> "vkGetPhysicalDeviceExternalSemaphoreProperties")
  @@ AliasOf({"KHRGetPhysicalDeviceProperties2"},
       "vkGetPhysicalDeviceFeatures2KHR" :> "vkGetPhysicalDeviceFeatures2"
       @@ "vkGetPhysicalDeviceFormatProperties2KHR" :> "vkGetPhysicalDeviceFormatProperties2"
       @@ "vkGetPhysicalDeviceImageFormatProperties2KHR" :> "vkGetPhysicalDeviceImageFormatProperties2")

InstanceMemoryToSurface ==
  Of({"1.1"}, {"vkGetPhysicalDeviceMemoryProperties2", "vkGetPhysicalDeviceProperties2",
       "vkGetPhysicalDeviceQueueFamilyProperties2",
       "vkGetPhysicalDeviceSparseImageFormatProperties2"})
  @@ Of({"EXTSampleLocations"}, {"vkGetPhysicalDeviceMultisamplePropertiesEXT"})
  @@ Of({"NVOpticalFlow"}, {"vkGetPhysicalDeviceOpticalFlowImageFormatsNV"})
  @@ Of({"KHRDeviceGroup", "KHRSwapchain"}, {"vkGetPhysicalDevicePresentRectanglesKHR"})
  @@ Of({"1.0"}, {"vkGetPhysicalDeviceProperties", "vkGetPhysicalDeviceQueueFamilyProperties",
       "vkGetPhysicalDeviceSparseImageFormatProperties"})
  @@ Of({"KHRPerformanceQuery"}, {"vkGetPhysicalDeviceQueueFamilyPerformanceQueryPassesKHR"})
  @@ Of({"QNXScreenSurface"}, {"vkGetPhysicalDeviceScreenPresentationSupportQNX"})
  @@ Of({"NVCoverageReductionMode"},
       {"vkGetPhysicalDeviceSupportedFramebufferMixedSamplesCombinationsNV"})
  @@ Of({"EXTDisplaySurfaceCounter"}, {"vkGetPhysicalDeviceSurfaceCapabilities2EXT"})
  @@ Of({"KHRGetSurfaceCapabilities2"}, {"vkGetPhysicalDeviceSurfaceCapabilities2KHR",
       "vkGetPhysicalDeviceSurfaceFormats2KHR"})
  @@ Of({"KHRSurface"}, {"vkGetPhysicalDeviceSurfaceCapabilitiesKHR",
       "vkGetPhysicalDeviceSurfaceFormatsKHR", "vkGetPhysicalDeviceSurfacePresentModesKHR",
       "vkGetPhysicalDeviceSurfaceSupportKHR"})
  @@ Of({"EXTFullScreenExclusive"}, {"vkGetPhysicalDeviceSurfacePresentModes2EXT"})
  @@ AliasOf({"KHRGetPhysicalDeviceProperties2"},
       "vkGetPhysicalDeviceMemoryProperties2KHR" :> "vkGetPhysicalDeviceMemoryProperties2"
       @@ "vkGetPhysicalDeviceProperties2KHR" :> "vkGetPhysicalDeviceProperties2"
       @@ "vkGetPhysicalDeviceQueueFamilyProperties2KHR" :> "vkGetPhysicalDeviceQueueFamilyProperties2"
       @@ "vkGetPhysicalDeviceSparseImageFormatProperties2KHR" :> "vkGetPhysicalDeviceSparseImageFormatProperties2")

InstanceToolToSubmit ==
  Of({"1.3"}, {"vkGetPhysicalDeviceToolProperties"})
  @@ Of({"KHRVideoQueue"}, {"vkGetPhysicalDeviceVideoCapabilitiesKHR",
       "vkGetPhysicalDeviceVideoFormatPropertiesKHR"})
  @@ Of({"KHRWaylandSurface"}, {"vkGetPhysicalDeviceWaylandPresentationSupportKHR"})
  @@ Of({"KHRWin32Surface"}, {"vkGetPhysicalDeviceWin32PresentationSupportKHR"})
  @@ Of({"KHRXcbSurface"}, {"vkGetPhysicalDeviceXcbPresentationSupportKHR"})
  @@ Of({"KHRXlibSurface"}, {"vkGetPhysicalDeviceXlibPresentationSupportKHR"})
  @@ Of({"EXTAcquireXlibDisplay"}, {"vkGetRandROutputDisplayEXT"})
  @@ Of({"NVAcquireWinrtDisplay"}, {"vkGetWinrtDisplayNV"})
  @@ Of({"EXTDirectModeDisplay"}, {"vkReleaseDisplayEXT"})
  @@ Of({"EXTDebugUtils"}, {"vkSubmitDebugUtilsMessageEXT"})
  @@ AliasOf({"EXTToolingInfo"},
       "vkGetPhysicalDeviceToolPropertiesEXT" :> "vkGetPhysicalDeviceToolProperties")

\* The whole table.
InstanceCommandTable ==
  InstanceAcquireToDebug @@ InstanceDestroyToGetInstance @@ InstanceCalibrateableToMemory
     @@ InstanceMemoryToSurface @@ InstanceToolToSubmit

\* Mutant: the alias of a command of lib.rs is hooked only if a layer lists it.
HookedByOneName ==
  {"vkDestroyDevice", "vkGetDeviceProcAddr", "vkCreateDevice", "vkDestroyInstance",
   "vkEnumerateDeviceExtensionProperties", "vkEnumerateDeviceLayerProperties",
   "vkEnumeratePhysicalDeviceGroups", "vkEnumeratePhysicalDevices",
   "vkGetInstanceProcAddr"}

\* Those with hooked: true.
AlwaysHooked ==
  {"vkDestroyDevice", "vkGetDeviceProcAddr", "vkCreateDevice", "vkDestroyInstance",
   "vkEnumerateDeviceExtensionProperties", "vkEnumerateDeviceLayerProperties",
   "vkEnumeratePhysicalDeviceGroups", "vkEnumeratePhysicalDeviceGroupsKHR",
   "vkEnumeratePhysicalDevices", "vkGetInstanceProcAddr"}
=============================================================================
